---- MODULE Spec2Model ----
(***************************************************************************)
(* STGen: orchestration state machine, fault-injection layer, traffic      *)
(* generator and driver life-cycle of the Hybrid IoT Platform test         *)
(* generator, modelled from src/stgen and src/protocols.                   *)
(*                                                                         *)
(* Time is a discrete clock `now` whose unit is a quarter of a second, so  *)
(* the injector's 0.5 s tolerance is 2 units.  Probabilities are percent   *)
(* (0..100) and a draw of random.random() is a percent in 0..99.           *)
(***************************************************************************)
EXTENDS Integers, Sequences, FiniteSets, TLC

VARIABLES
  cfg,        \* the configuration dictionary of the run (never mutated)
  now,        \* wall clock / perf_counter, in quarter seconds
  pc,         \* position of run_single_test / the harness
  inj,        \* the FailureInjector instance (or NoInjector)
  last,       \* observation of the latest send_data call of the protocol
  metrics,    \* Orchestrator.metrics: sent, recv, lat, err
  drv,        \* the Protocol instance: _alive, owned resources, ...
  calls,      \* history: driver operations invoked, in order
  gen,        \* the generate_sensor_stream generator frame
  cur,        \* the Reading the active loop is processing
  emitted,    \* history: Readings yielded by the generator, in order
  result,     \* run_test's return value, the summary written, ...
  mc,         \* the MetricsCollector instance
  thr,        \* the recording call each thread is inside of, if any
  recorded,   \* history: per recording method, what its returned calls recorded
  sp,         \* a StreamingPercentile instance and the observation of its calls
  hist        \* a HistogramBucket instance and the observation of its latest call

vars == <<cfg, now, pc, inj, last, metrics, drv, calls, gen, cur, emitted, result,
          mc, thr, recorded, sp, hist>>

----------------------------------------------------------------------------
(* Bounds of the model *)

MaxClients == 2        \* num_clients ranges over 0..MaxClients
MaxDuration == 2       \* cfg.duration ranges over 1..MaxDuration (clock units)
MaxReadings == 3       \* Readings taken from the stream in one run
MaxTime == 4           \* the clock stops advancing here
MaxSends == 2          \* harness: wrapped sends per injector instance
MaxLogLines == 2       \* passive mode: lines of recv.log
MaxStops == 3          \* harness: stop() calls per driver instance
MaxCalls == 3          \* harness: recording calls made on the MetricsCollector
MaxEvents == 52        \* log harness: wrapped sends per injector instance
MaxBuffer == 3         \* percentile harness: buffer_size ranges over 0..MaxBuffer
MaxAdds == 4           \* percentile harness: add calls per StreamingPercentile instance

(* Program constants *)

CrashWindow == 2       \* abs(elapsed - crash_time) < 0.5 s
CrashIdMax == 10       \* random.randint(0, 10)
SeqModulus == 65536    \* corrupt_payload: % 65536
SummaryEventCap == 50  \* get_failure_summary: self.events[:50]

NoTarget == -1         \* FailureEvent.target = None
NoCfg == [present |-> FALSE]

Rand == {0, 50, 99}    \* sampled values of random.random(), in percent
Draws(rate) == {r \in Rand : r \in {0, 99, rate}}   \* the draws that matter against rate
Rates == {0, 50, 100}  \* sampled probabilities, in percent
CorruptDeltas == {-100, 100}   \* sampled random.randint(-100, 100)
CrashIds == (0..(MaxClients - 1)) \cup {CrashIdMax}   \* sampled random.randint(0, 10)

Abs(x) == IF x < 0 THEN -x ELSE x
Max(a, b) == IF a >= b THEN a ELSE b
Min(a, b) == IF a <= b THEN a ELSE b

----------------------------------------------------------------------------
(* failure_injector.py *)

FailureEvent(t, type, target, duration) ==
  [time_sec |-> t, failure_type |-> type, target |-> target, duration_sec |-> duration]

\* FailureInjector.__init__
NewInjector(c, t) ==
  [ present |-> TRUE,
    packet_loss_rate |-> c.failure_injection.packet_loss,
    corruption_rate |-> c.failure_injection.message_corruption,
    crash_times |-> c.failure_injection.client_crashes,
    partition_cfg |-> c.failure_injection.network_partition,
    latency_spike_cfg |-> c.failure_injection.latency_spike,
    crashed_clients |-> {},
    partition_active |-> FALSE,
    partition_end_time |-> 0,
    start_time |-> t,
    events |-> << >> ]

NoInjector == [present |-> FALSE]

EventsOfType(j, type) == {i \in 1..Len(j.events) : j.events[i].failure_type = type}

\* the guard of check_client_crashes for one configured crash time
CrashFires(j, t, ct) ==
  /\ Abs((t - j.start_time) - ct) < CrashWindow
  /\ ct \notin {j.events[i].time_sec : i \in EventsOfType(j, "client_crash")}

CrashClient(j, t, id) ==
  [j EXCEPT !.crashed_clients = @ \cup {id},
            !.events = Append(@, FailureEvent(t - j.start_time, "client_crash", id, NoTarget))]

\* check_client_crashes: the set of injector states it can leave, over the
\* random client ids drawn for the crash times that fire; k is the loop index
RECURSIVE CheckClientCrashesFrom(_, _, _)
CheckClientCrashesFrom(j, t, k) ==
  IF k > Len(j.crash_times) THEN {j}
  ELSE IF CrashFires(j, t, j.crash_times[k])
       THEN UNION {CheckClientCrashesFrom(CrashClient(j, t, id), t, k + 1) : id \in CrashIds}
       ELSE CheckClientCrashesFrom(j, t, k + 1)

CheckClientCrashes(j, t) == CheckClientCrashesFrom(j, t, 1)

\* variant: reviving a client removes its crash events from the log
ReviveClientForgets(j, t, id) ==
  IF id \in j.crashed_clients
  THEN [j EXCEPT !.crashed_clients = @ \ {id},
                 !.events = Append(SelectSeq(@, LAMBDA e : ~(e.failure_type = "client_crash" /\ e.target = id)),
                                   FailureEvent(t - j.start_time, "client_revive", id, NoTarget))]
  ELSE j

\* revive_client
ReviveClient(j, t, id) ==
  IF id \in j.crashed_clients
  THEN [j EXCEPT !.crashed_clients = @ \ {id},
                 !.events = Append(@, FailureEvent(t - j.start_time, "client_revive", id, NoTarget))]
  ELSE j

\* variant: a partition starts whether or not one is active
CheckNetworkPartitionRestarts(j, t) ==
  IF ~j.partition_cfg.present THEN j
  ELSE IF Abs((t - j.start_time) - j.partition_cfg.start_sec) < CrashWindow
       THEN [j EXCEPT !.partition_active = TRUE,
                      !.partition_end_time = t + j.partition_cfg.duration_sec,
                      !.events = Append(@, FailureEvent(t - j.start_time, "network_partition",
                                                        NoTarget, j.partition_cfg.duration_sec))]
       ELSE IF j.partition_active /\ t >= j.partition_end_time
            THEN [j EXCEPT !.partition_active = FALSE,
                           !.events = Append(@, FailureEvent(t - j.start_time, "partition_healed",
                                                             NoTarget, NoTarget))]
            ELSE j

\* check_network_partition
CheckNetworkPartition(j, t) ==
  IF ~j.partition_cfg.present THEN j
  ELSE IF ~j.partition_active /\ Abs((t - j.start_time) - j.partition_cfg.start_sec) < CrashWindow
       THEN [j EXCEPT !.partition_active = TRUE,
                      !.partition_end_time = t + j.partition_cfg.duration_sec,
                      !.events = Append(@, FailureEvent(t - j.start_time, "network_partition",
                                                        NoTarget, j.partition_cfg.duration_sec))]
       ELSE IF j.partition_active /\ t >= j.partition_end_time
            THEN [j EXCEPT !.partition_active = FALSE,
                           !.events = Append(@, FailureEvent(t - j.start_time, "partition_healed",
                                                             NoTarget, NoTarget))]
            ELSE j

\* should_drop_packet: r is the draw of random.random(); parity is
\* hash(client_id) % 2 of this process
\* variant: the comparison with the loss rate is reversed
ShouldDropPacketReversed(j, t, cid, parity, r) ==
  IF cid \in j.crashed_clients
  THEN [drop |-> TRUE, reason |-> "crashed", inj |-> j]
  ELSE IF j.partition_active /\ t < j.partition_end_time /\ parity = 0
       THEN [drop |-> TRUE, reason |-> "partition", inj |-> j]
       ELSE IF r > j.packet_loss_rate
            THEN [drop |-> TRUE, reason |-> "loss",
                  inj |-> [j EXCEPT !.events = Append(@, FailureEvent(t - j.start_time, "packet_loss", cid, NoTarget))]]
            ELSE [drop |-> FALSE, reason |-> "none", inj |-> j]

\* variant: the crashed set is not consulted
ShouldDropPacketNoCrashCheck(j, t, cid, parity, r) ==
  IF j.partition_active /\ t < j.partition_end_time /\ parity = 0
  THEN [drop |-> TRUE, reason |-> "partition", inj |-> j]
  ELSE IF r < j.packet_loss_rate
       THEN [drop |-> TRUE, reason |-> "loss",
             inj |-> [j EXCEPT !.events = Append(@, FailureEvent(t - j.start_time, "packet_loss", cid, NoTarget))]]
       ELSE [drop |-> FALSE, reason |-> "none", inj |-> j]

\* variant: an active partition drops the clients of both sides
ShouldDropPacketBothSides(j, t, cid, parity, r) ==
  IF cid \in j.crashed_clients
  THEN [drop |-> TRUE, reason |-> "crashed", inj |-> j]
  ELSE IF j.partition_active /\ t < j.partition_end_time
       THEN [drop |-> TRUE, reason |-> "partition", inj |-> j]
       ELSE IF r < j.packet_loss_rate
            THEN [drop |-> TRUE, reason |-> "loss",
                  inj |-> [j EXCEPT !.events = Append(@, FailureEvent(t - j.start_time, "packet_loss", cid, NoTarget))]]
            ELSE [drop |-> FALSE, reason |-> "none", inj |-> j]

ShouldDropPacket(j, t, cid, parity, r) ==
  IF cid \in j.crashed_clients
  THEN [drop |-> TRUE, reason |-> "crashed", inj |-> j]
  ELSE IF j.partition_active /\ t < j.partition_end_time /\ parity = 0
       THEN [drop |-> TRUE, reason |-> "partition", inj |-> j]
       ELSE IF r < j.packet_loss_rate
            THEN [drop |-> TRUE, reason |-> "loss",
                  inj |-> [j EXCEPT !.events = Append(@, FailureEvent(t - j.start_time, "packet_loss", cid, NoTarget))]]
            ELSE [drop |-> FALSE, reason |-> "none", inj |-> j]

\* should_corrupt_message
ShouldCorruptMessage(j, t, r) ==
  IF r < j.corruption_rate
  THEN [corrupt |-> TRUE,
        inj |-> [j EXCEPT !.events = Append(@, FailureEvent(t - j.start_time, "corruption", NoTarget, NoTarget))]]
  ELSE [corrupt |-> FALSE, inj |-> j]

\* corrupt_payload: r is the draw deciding on the sequence number, delta the randint
CorruptPayload(data, r, delta) ==
  [data EXCEPT !.sensor_data = "CORRUPTED",
               !.seq_no = IF r > 50 THEN (@ + delta) % SeqModulus ELSE @]

\* variant: a draw equal to the probability triggers the spike
InjectLatencySpikeInclusive(j, t, r) ==
  IF ~j.latency_spike_cfg.present THEN [delay |-> 0, inj |-> j]
  ELSE IF r <= j.latency_spike_cfg.probability
       THEN [delay |-> j.latency_spike_cfg.duration,
             inj |-> [j EXCEPT !.events = Append(@, FailureEvent(t - j.start_time, "latency_spike", NoTarget, NoTarget))]]
       ELSE [delay |-> 0, inj |-> j]

\* inject_latency_spike: the extra delay in clock units, 0 for None
InjectLatencySpike(j, t, r) ==
  IF ~j.latency_spike_cfg.present THEN [delay |-> 0, inj |-> j]
  ELSE IF r < j.latency_spike_cfg.probability
       THEN [delay |-> j.latency_spike_cfg.duration,
             inj |-> [j EXCEPT !.events = Append(@, FailureEvent(t - j.start_time, "latency_spike", NoTarget, NoTarget))]]
       ELSE [delay |-> 0, inj |-> j]

\* the dictionary exported for one event
ExportEvent(e) ==
  [time_sec |-> e.time_sec, type |-> e.failure_type, target |-> e.target, duration_sec |-> e.duration_sec]

\* len([e for e in self.events if e.failure_type == type])
CountOfType(j, type) == Cardinality(EventsOfType(j, type))

\* variant: the summary exports the most recent events
GetFailureSummaryLatest(j) ==
  [ total_events |-> Len(j.events),
    packet_losses |-> CountOfType(j, "packet_loss"),
    corruptions |-> CountOfType(j, "corruption"),
    client_crashes |-> CountOfType(j, "client_crash"),
    network_partitions |-> CountOfType(j, "network_partition"),
    latency_spikes |-> CountOfType(j, "latency_spike"),
    events |-> [i \in 1..Min(SummaryEventCap, Len(j.events)) |->
                  ExportEvent(j.events[Len(j.events) - Min(SummaryEventCap, Len(j.events)) + i])] ]

\* get_failure_summary
GetFailureSummary(j) ==
  [ total_events |-> Len(j.events),
    packet_losses |-> CountOfType(j, "packet_loss"),
    corruptions |-> CountOfType(j, "corruption"),
    client_crashes |-> CountOfType(j, "client_crash"),
    network_partitions |-> CountOfType(j, "network_partition"),
    latency_spikes |-> CountOfType(j, "latency_spike"),
    events |-> [i \in 1..Min(SummaryEventCap, Len(j.events)) |-> ExportEvent(j.events[i])] ]

----------------------------------------------------------------------------
(* protocol_interface.py and the bundled drivers under src/protocols *)

Bundled == {"template", "my_udp", "mqtt", "coap", "srtp"}
Protocols == Bundled \cup {"plugin"}   \* "plugin": any other ProtocolInterface implementation

\* the mode a driver declares at construction
ProtocolMode(p, c) ==
  IF p = "my_udp" THEN "passive"
  ELSE IF p = "srtp" THEN "active"
  ELSE c.mode

\* Protocol.__init__: server/clients are the resources the driver owns
NewProtocol(c) ==
  [ protocol |-> c.protocol,
    mode |-> ProtocolMode(c.protocol, c),
    alive |-> TRUE,            \* self._alive
    server |-> "none",         \* "none", "running", "stopped"
    clients |-> 0,             \* client processes / connections created
    connected |-> 0,           \* mqtt: clients whose is_connected() is true
    loop_closed |-> FALSE,     \* coap: the event loop has been closed
    stops |-> 0 ]              \* history: stop() calls made

Returned(d) == [raised |-> FALSE, drv |-> d]
Raised(d) == [raised |-> TRUE, drv |-> d]

\* start_server of each driver: the outcomes it can have
StartServer(d) ==
  CASE d.protocol = "template" -> {Returned(d)}
    [] d.protocol = "coap" -> {Returned([d EXCEPT !.server = "running"])}
    [] d.protocol = "my_udp" -> {Raised(d), Returned([d EXCEPT !.server = "running"])}
    [] d.protocol = "srtp" -> {Raised(d), Raised([d EXCEPT !.server = "stopped"]),
                               Returned([d EXCEPT !.server = "running"])}
    [] d.protocol = "mqtt" -> {Raised(d), Returned([d EXCEPT !.server = "running"])}
    [] OTHER -> {Raised(d), Returned([d EXCEPT !.server = "running"])}

\* start_clients(num) of each driver
StartClients(d, num) ==
  CASE d.protocol \in {"template", "coap"} -> {Returned(d)}
    [] d.protocol = "my_udp" ->
         {Raised([d EXCEPT !.clients = k]) : k \in 0..(num - 1)}
           \cup {Returned([d EXCEPT !.clients = num])}
    [] d.protocol = "srtp" ->
         {Raised(d)} \cup {Returned([d EXCEPT !.clients = k]) : k \in 0..num}
    [] d.protocol = "mqtt" ->
         {Returned([d EXCEPT !.clients = k, !.connected = k]) : k \in 0..num}
    [] OTHER -> {Raised(d), Returned([d EXCEPT !.clients = num])}

SendReturn(ok, t_srv, dur) == [kind |-> "ret", ok |-> ok, t_srv |-> t_srv, dur |-> dur]
SendRaise == [kind |-> "raise", ok |-> FALSE, t_srv |-> 0, dur |-> 0]

\* send_data of each driver, called at time t: what it returns (ok, t_srv),
\* and how long the call blocks (dur)
SendData(d, t) ==
  CASE d.protocol = "template" -> {SendReturn(TRUE, 0, 0)}
    [] d.protocol \in {"my_udp", "srtp"} -> {SendRaise}
    [] d.protocol = "mqtt" ->
         IF d.clients = 0 THEN {SendReturn(FALSE, 0, 0)}
         ELSE {SendReturn(TRUE, t + dur, dur) : dur \in 0..1} \cup {SendReturn(FALSE, 0, 0)}
    [] d.protocol = "coap" ->
         IF d.server # "running" THEN {SendReturn(FALSE, 0, 0)}
         ELSE {SendReturn(TRUE, t + dur, dur) : dur \in 0..1} \cup {SendReturn(FALSE, 0, 0)}
    [] OTHER ->
         {SendRaise, SendReturn(FALSE, 0, 0), SendReturn(FALSE, t + 1, 0),
          SendReturn(TRUE, t - 1, 0), SendReturn(TRUE, t + 1, 0)}

\* is_alive of each driver
IsAlive(d) ==
  IF d.protocol = "mqtt" THEN d.alive /\ d.connected > 0 ELSE d.alive

\* variant: stop() closes the event loop
CoapStopClosesLoop(d) ==
  IF d.server = "running" /\ d.loop_closed
  THEN Raised([d EXCEPT !.alive = FALSE, !.stops = @ + 1])
  ELSE Returned([d EXCEPT !.alive = FALSE, !.loop_closed = TRUE, !.stops = @ + 1])

\* coap stop(): run_coroutine_threadsafe is outside the try block and raises on
\* a closed loop; the code never closes the loop
CoapStop(d) ==
  IF d.server = "running" /\ d.loop_closed
  THEN Raised([d EXCEPT !.alive = FALSE, !.stops = @ + 1])
  ELSE Returned([d EXCEPT !.alive = FALSE, !.stops = @ + 1])

\* stop() of the drivers that own processes or connections: every library
\* call that can fail is guarded by poll() or wrapped in try/except
ProcessStop(d) ==
  Returned([d EXCEPT !.alive = FALSE,
                     !.server = IF @ = "running" THEN "stopped" ELSE @,
                     !.connected = 0,
                     !.stops = @ + 1])

\* stop() of each driver
Stop(d) ==
  CASE d.protocol = "template" -> {Returned([d EXCEPT !.alive = FALSE, !.stops = @ + 1])}
    [] d.protocol = "coap" -> {CoapStop(d)}
    [] d.protocol \in {"my_udp", "mqtt", "srtp"} -> {ProcessStop(d)}
    [] OTHER -> {Returned([d EXCEPT !.alive = FALSE, !.stops = @ + 1]),
                 Raised([d EXCEPT !.stops = @ + 1])}

----------------------------------------------------------------------------
(* failure_injector.py: wrap_send_with_failures, and the send_data the
   orchestrator sees *)

NoData == [dev_id |-> NoTarget, ts |-> 0, seq_no |-> 0, sensor_data |-> "none", node_id |-> "none"]

NoCall ==
  [ n |-> 0, cid |-> NoTarget, data_in |-> NoData, data_out |-> NoData, invoked |-> 0,
    kind |-> "none", ok |-> FALSE, t_srv |-> 0, under |-> SendRaise,
    reason |-> "none", corrupted |-> FALSE, delay |-> 0, t0 |-> 0, crashed |-> {} ]

\* a call that was dropped by the injector: return False, 0.0
DroppedCall(cid, data, why, j) ==
  [ n |-> last.n + 1, cid |-> cid, data_in |-> data, data_out |-> NoData, invoked |-> 0,
    kind |-> "ret", ok |-> FALSE, t_srv |-> 0, under |-> SendRaise,
    reason |-> why, corrupted |-> FALSE, delay |-> 0, t0 |-> now, crashed |-> j.crashed_clients ]

\* a call that reached the driver's send_data with payload out, which did o
DeliveredCall(cid, data, out, o, corrupted, delay, crashed) ==
  [ n |-> last.n + 1, cid |-> cid, data_in |-> data, data_out |-> out, invoked |-> 1,
    kind |-> o.kind, ok |-> o.ok, t_srv |-> o.t_srv, under |-> o,
    reason |-> "none", corrupted |-> corrupted, delay |-> delay, t0 |-> now, crashed |-> crashed ]

\* the undecorated driver send
PlainSend(cid, data) ==
  \E o \in SendData(drv, now) :
    /\ last' = DeliveredCall(cid, data, data, o, FALSE, 0, {})
    /\ now' = now + o.dur
    /\ calls' = Append(calls, [op |-> "send_data", raised |-> o.kind = "raise"])
    /\ inj' = inj

\* variant: the corruption step runs before the drop decision
WrappedSendCorruptsFirst(cid, data) ==
  \E j1 \in CheckClientCrashes(inj, now) :
    LET j2 == CheckNetworkPartition(j1, now) IN
    \E r2 \in Draws(j2.corruption_rate) :
      LET c == ShouldCorruptMessage(j2, now, r2) IN
      \E r1 \in Draws(c.inj.packet_loss_rate) :
        LET d == ShouldDropPacket(c.inj, now, cid, cfg.hash_parity[cid], r1) IN
        IF d.drop
        THEN /\ inj' = d.inj
             /\ last' = DroppedCall(cid, data, d.reason, d.inj)
             /\ UNCHANGED <<now, calls>>
        ELSE \E r3 \in (IF c.corrupt THEN {0, 99} ELSE {0}), delta \in (IF c.corrupt THEN CorruptDeltas ELSE {0}) :
               LET out == IF c.corrupt THEN CorruptPayload(data, r3, delta) ELSE data IN
               \E r4 \in (IF d.inj.latency_spike_cfg.present THEN Draws(d.inj.latency_spike_cfg.probability) ELSE {0}) :
                 LET s == InjectLatencySpike(d.inj, now, r4) IN
                 \E o \in SendData(drv, now + s.delay) :
                   /\ inj' = s.inj
                   /\ last' = DeliveredCall(cid, data, out, o, c.corrupt, s.delay, s.inj.crashed_clients)
                   /\ now' = now + s.delay + o.dur
                   /\ calls' = Append(calls, [op |-> "send_data", raised |-> o.kind = "raise"])

\* wrapped_send, steps in the order of the code
WrappedSend(cid, data) ==
  \E j1 \in CheckClientCrashes(inj, now) :
    LET j2 == CheckNetworkPartition(j1, now) IN
    \E r1 \in Draws(j2.packet_loss_rate) :
      LET d == ShouldDropPacket(j2, now, cid, cfg.hash_parity[cid], r1) IN
      IF d.drop
      THEN /\ inj' = d.inj
           /\ last' = DroppedCall(cid, data, d.reason, d.inj)
           /\ UNCHANGED <<now, calls>>
      ELSE \E r2 \in Draws(d.inj.corruption_rate) :
             LET c == ShouldCorruptMessage(d.inj, now, r2) IN
             \E r3 \in (IF c.corrupt THEN {0, 99} ELSE {0}), delta \in (IF c.corrupt THEN CorruptDeltas ELSE {0}) :
               LET out == IF c.corrupt THEN CorruptPayload(data, r3, delta) ELSE data IN
               \E r4 \in (IF c.inj.latency_spike_cfg.present THEN Draws(c.inj.latency_spike_cfg.probability) ELSE {0}) :
                 LET s == InjectLatencySpike(c.inj, now, r4) IN
                 \E o \in SendData(drv, now + s.delay) :
                   /\ inj' = s.inj
                   /\ last' = DeliveredCall(cid, data, out, o, c.corrupt, s.delay, s.inj.crashed_clients)
                   /\ now' = now + s.delay + o.dur
                   /\ calls' = Append(calls, [op |-> "send_data", raised |-> o.kind = "raise"])

\* orch.protocol.send_data as bound by run_single_test
ProtocolSend(cid, data) ==
  IF inj.present THEN WrappedSend(cid, data) ELSE PlainSend(cid, data)

----------------------------------------------------------------------------
(* sensor_generator.py: generate_sensor_stream *)

\* the generator object before its first next(): no code of the body has run
NewStream ==
  [ started |-> FALSE, finished |-> FALSE, start_time |-> 0, seq_no |-> 0, pos |-> 0 ]

\* devices[i]: round-robin sensor type and dev_id
Device(c, i) ==
  [ id |-> i, type |-> c.sensors[(i % Len(c.sensors)) + 1] ]

\* variant: the counter advances once per pass over the devices
YieldReadingPerPass(g, c, t) ==
  [ yielded |-> TRUE,
    gen |-> [g EXCEPT !.seq_no = IF g.pos = 1 THEN @ + 1 ELSE @,
                      !.pos = IF g.pos = c.num_clients THEN 0 ELSE g.pos + 1],
    reading |-> [ client_id |-> g.pos - 1,
                  data |-> [ dev_id |-> Device(c, g.pos - 1).id, ts |-> t,
                             seq_no |-> IF g.pos = 1 THEN g.seq_no + 1 ELSE g.seq_no,
                             sensor_data |-> Device(c, g.pos - 1).type, node_id |-> "none" ],
                  to |-> c.interval ] ]

\* the body of the for loop: one Reading for device number pos - 1
YieldReading(g, c, t) ==
  [ yielded |-> TRUE,
    gen |-> [g EXCEPT !.seq_no = @ + 1,
                      !.pos = IF g.pos = c.num_clients THEN 0 ELSE g.pos + 1],
    reading |-> [ client_id |-> g.pos - 1,
                  data |-> [ dev_id |-> Device(c, g.pos - 1).id, ts |-> t,
                             seq_no |-> g.seq_no + 1,
                             sensor_data |-> Device(c, g.pos - 1).type, node_id |-> "none" ],
                  to |-> c.interval ] ]

StopIteration(g) ==
  [ yielded |-> FALSE, gen |-> [g EXCEPT !.finished = TRUE], reading |-> [client_id |-> NoTarget, data |-> NoData, to |-> 0] ]

\* variant: the while loop never compares the elapsed time with the duration
StreamNextNoDeadline(g, c, t) ==
  LET g0 == IF g.started THEN g ELSE [g EXCEPT !.started = TRUE, !.start_time = t] IN
  IF g0.finished THEN StopIteration(g0)
  ELSE IF g0.pos = 0
       THEN IF c.num_clients > 0
            THEN YieldReading([g0 EXCEPT !.pos = 1], c, t)
            ELSE StopIteration(g0)
       ELSE YieldReading(g0, c, t)

\* next(stream) at time t, for num_clients > 0: run the generator up to its
\* next yield or to its end.  pos = 0 is the test of the while loop, which is
\* the only place where the elapsed time is compared with the duration.
StreamNext(g, c, t) ==
  LET g0 == IF g.started THEN g ELSE [g EXCEPT !.started = TRUE, !.start_time = t] IN
  IF g0.finished THEN StopIteration(g0)
  ELSE IF g0.pos = 0
       THEN IF (t - g0.start_time) < c.duration /\ c.num_clients > 0
            THEN YieldReading([g0 EXCEPT !.pos = 1], c, t)
            ELSE StopIteration(g0)
       ELSE YieldReading(g0, c, t)

\* the time at which next(stream) called at t returns: with no devices the
\* while loop spins until the duration has elapsed
StreamNextReturns(g, c, t) ==
  LET start == IF g.started THEN g.start_time ELSE t IN
  IF ~g.finished /\ c.num_clients = 0 THEN Max(t, start + c.duration) ELSE t

----------------------------------------------------------------------------
(* Configurations *)

SettleDelay == 2       \* time.sleep(0.5) after start_server / start_clients

CrashSchedules == {<< >>, <<5>>, <<5, 6>>}
PartitionCfgs == {NoCfg, [present |-> TRUE, start_sec |-> 5, duration_sec |-> 2]}
SpikeCfgs == {NoCfg} \cup {[present |-> TRUE, probability |-> p, duration |-> 1] : p \in {0, 100}}

\* the failure_injection sub-record
FaultConfigs ==
  [ packet_loss : Rates, message_corruption : Rates, client_crashes : CrashSchedules,
    network_partition : PartitionCfgs, latency_spike : SpikeCfgs ]

NoFaults ==
  [ packet_loss |-> 0, message_corruption |-> 0, client_crashes |-> << >>,
    network_partition |-> NoCfg, latency_spike |-> NoCfg ]

\* the fault configurations full runs are explored with
RunFaultConfigs ==
  { f \in FaultConfigs :
      /\ f.message_corruption = f.packet_loss
      /\ Len(f.client_crashes) <= 1
      /\ f.client_crashes # << >> => f.packet_loss # 0
      /\ f.network_partition.present = (f.client_crashes # << >>)
      /\ f.latency_spike = (IF f.client_crashes # << >>
                            THEN [present |-> TRUE, probability |-> 100, duration |-> 1]
                            ELSE NoCfg) }

Sensors == <<"temp", "humidity", "motion">>

BaseConfig(p, m, r, n, d, h, f, hp) ==
  [ protocol |-> p, mode |-> m, role |-> r, num_clients |-> n, duration |-> d,
    interval |-> 1, sensors |-> Sensors, has_fi |-> h, failure_injection |-> f,
    hash_parity |-> hp ]

NoParity == [i \in 0..(MaxClients - 1) |-> 0]

\* hash(client_id) % 2 under two hash seeds of the process
Parities(f) ==
  IF f.network_partition.present
  THEN {[i \in 0..(MaxClients - 1) |-> i % 2], [i \in 0..(MaxClients - 1) |-> (i + 1) % 2]}
  ELSE {NoParity}

\* mode only matters to the drivers that read it
Modes(p) == IF p \in {"my_udp", "srtp"} THEN {"active"} ELSE {"active", "passive"}

\* configurations without and with a failure_injection section
Configs(faults) ==
  { BaseConfig(pm[1], pm[2], r, n, d, FALSE, NoFaults, NoParity) :
      pm \in {q \in Protocols \X {"active", "passive"} : q[2] \in Modes(q[1])},
      r \in {"core", "sensor"}, n \in 0..MaxClients, d \in 1..MaxDuration }
  \cup
  { BaseConfig(pm[1], pm[2], r, n, d, TRUE, fh[1], fh[2]) :
      pm \in {q \in Protocols \X {"active", "passive"} : q[2] \in Modes(q[1])},
      r \in {"core", "sensor"}, n \in 0..MaxClients, d \in 1..MaxDuration,
      fh \in {x \in faults \X [0..(MaxClients - 1) -> {0, 1}] : x[2] \in Parities(x[1])} }

\* variant: the role of the node is not checked against num_clients
ValidateConfigLenient(c) ==
  /\ c.num_clients >= 0
  /\ c.duration > 0

\* validate_config: the checks that depend on the modelled fields
ValidateConfig(c) ==
  /\ c.num_clients >= 0
  /\ ~(c.role = "sensor" /\ c.num_clients = 0)
  /\ c.duration > 0

----------------------------------------------------------------------------
(* metrics_collector.py: HistogramBucket.  Values are whole milliseconds and
   the bucket width is a whole number; percentile() returns a rational, kept as
   a fraction num / den with den > 0. *)

\* the collector's own histogram (and the constructor's defaults), and a small
\* one whose range does not start at zero
HistConfigs ==
  { [min_val |-> 0, max_val |-> 1000, num_buckets |-> 100],
    [min_val |-> 10, max_val |-> 30, num_buckets |-> 2] }

HistPercentiles == {0, 25, 50, 90, 100}    \* sampled arguments of percentile()

Frac(n, d) == [num |-> n, den |-> d]

\* HistogramBucket.__init__
Hist_init(c) ==
  [ min_val |-> c.min_val,
    max_val |-> c.max_val,
    num_buckets |-> c.num_buckets,
    buckets |-> [i \in 0..(c.num_buckets - 1) |-> 0],
    underflow |-> 0,
    overflow |-> 0,
    total_count |-> 0,
    total_sum |-> 0,
    bucket_width |-> (c.max_val - c.min_val) \div c.num_buckets,
    op |-> "none",             \* the latest call: method,
    arg |-> 0,                 \*   argument,
    idx |-> -1,                \*   bucket index computed by add (-1: none),
    value |-> Frac(0, 1) ]     \*   value returned by percentile

NoHistogram == [num_buckets |-> 0]

\* sampled values: below the range, on its lower edge, on both sides of a
\* bucket boundary, just inside the upper edge, on it and above it
HistSamples(h) ==
  { h.min_val - 5, h.min_val, h.min_val + h.bucket_width - 1, h.min_val + h.bucket_width,
    h.max_val - 1, h.max_val, h.max_val + 5 }

\* variant: a value equal to max_val is not an overflow
Hist_addOverflowStrict(h, value) ==
  LET c == [h EXCEPT !.total_count = @ + 1, !.total_sum = @ + value,
                     !.op = "add", !.arg = value, !.idx = -1, !.value = Frac(0, 1)]
  IN IF value < h.min_val THEN [c EXCEPT !.underflow = @ + 1]
     ELSE IF value > h.max_val THEN [c EXCEPT !.overflow = @ + 1]
     ELSE LET bucket_idx == Min((value - h.min_val) \div h.bucket_width, h.num_buckets - 1)
          IN [c EXCEPT !.buckets[bucket_idx] = @ + 1, !.idx = bucket_idx]

\* HistogramBucket.add
Hist_add(h, value) ==
  LET c == [h EXCEPT !.total_count = @ + 1, !.total_sum = @ + value,
                     !.op = "add", !.arg = value, !.idx = -1, !.value = Frac(0, 1)]
  IN IF value < h.min_val THEN [c EXCEPT !.underflow = @ + 1]
     ELSE IF value >= h.max_val THEN [c EXCEPT !.overflow = @ + 1]
     ELSE LET bucket_idx == Min((value - h.min_val) \div h.bucket_width, h.num_buckets - 1)
          IN [c EXCEPT !.buckets[bucket_idx] = @ + 1, !.idx = bucket_idx]

\* one iteration of the for loop of percentile, at bucket i with the count
\* accumulated before it; cumulative >= target_count is compared as
\* 100 * cumulative >= p * total_count
Hist_visit(h, p, i, before) ==
  LET count == h.buckets[i]
      cumulative == before + count
      bucket_start == h.min_val + i * h.bucket_width
      bucket_end == bucket_start + h.bucket_width
  IN IF 100 * cumulative >= p * h.total_count
     THEN [ returned |-> TRUE, cumulative |-> cumulative,
            value |-> IF count = 0 THEN Frac(bucket_start, 1)
                      ELSE \* bucket_end - ((cumulative - target_count) / count) * bucket_width
                           Frac(bucket_end * 100 * count
                                  - (100 * cumulative - p * h.total_count) * h.bucket_width,
                                100 * count) ]
     ELSE [ returned |-> FALSE, cumulative |-> cumulative, value |-> Frac(0, 1) ]

\* the for loop of percentile over buckets lo..hi in order, stopping at the
\* first return; the range is walked as two halves, one after the other
RECURSIVE Hist_walk(_, _, _, _, _)
Hist_walk(h, p, lo, hi, before) ==
  IF lo = hi THEN Hist_visit(h, p, lo, before)
  ELSE LET mid == (lo + hi) \div 2
           first == Hist_walk(h, p, lo, mid, before)
       IN IF first.returned THEN first
          ELSE Hist_walk(h, p, mid + 1, hi, first.cumulative)

\* HistogramBucket.percentile: the instance with the returned value recorded
Hist_percentile(h, p) ==
  LET walk == Hist_walk(h, p, 0, h.num_buckets - 1, h.underflow) IN
  [h EXCEPT !.op = "percentile", !.arg = p, !.idx = -1,
            !.value = IF h.total_count = 0 THEN Frac(0, 1)
                      ELSE IF walk.returned THEN walk.value
                      ELSE Frac(h.max_val, 1)]

----------------------------------------------------------------------------
(* metrics_collector.py: StreamingPercentile *)

Samples == {1, 2, 3}                       \* sampled latency values
Percentiles == {-10, 0, 50, 90, 100, 150}  \* sampled arguments of percentile()

\* StreamingPercentile.__init__; sorted_cache is None until the first sort and
\* is not read before it
Streaming_init(size) ==
  [ buffer_size |-> size,
    buffer |-> << >>,          \* deque(maxlen=buffer_size)
    sorted_cache |-> << >>,
    cache_valid |-> FALSE,
    added |-> << >>,           \* history: every value passed to add, in order
    queries |-> 0,             \* history: percentile() calls made
    p |-> 0, value |-> 0,      \* the latest percentile() call: argument, return value
    prev_p |-> 0, prev_value |-> 0 ]   \* the call before it

NoStreaming == [buffer_size |-> 0]

\* deque.append on a deque with maxlen: a full deque discards from the left
DequeAppend(buf, maxlen, v) ==
  LET b == Append(buf, v) IN
  IF Len(b) > maxlen THEN SubSeq(b, Len(b) - maxlen + 1, Len(b)) ELSE b

\* variant: a full buffer keeps its samples and discards the new one
Streaming_addKeepsOldest(q, v) ==
  [q EXCEPT !.buffer = IF Len(@) >= q.buffer_size THEN @ ELSE Append(@, v),
            !.cache_valid = FALSE,
            !.added = Append(@, v)]

\* variant: add leaves the sorted cache valid
Streaming_addKeepsCache(q, v) ==
  [q EXCEPT !.buffer = DequeAppend(@, q.buffer_size, v),
            !.added = Append(@, v)]

\* StreamingPercentile.add
Streaming_add(q, v) ==
  [q EXCEPT !.buffer = DequeAppend(@, q.buffer_size, v),
            !.cache_valid = FALSE,
            !.added = Append(@, v)]

\* sorted(self.buffer)
Sorted(buf) == SortSeq(buf, LAMBDA a, b : a < b)

\* StreamingPercentile._ensure_sorted
Streaming_ensure_sorted(q) ==
  IF ~q.cache_valid
  THEN [q EXCEPT !.sorted_cache = Sorted(q.buffer), !.cache_valid = TRUE]
  ELSE q

\* int(num / den): the quotient truncated towards zero
IntPart(num, den) == IF num >= 0 THEN num \div den ELSE -((-num) \div den)

\* StreamingPercentile.percentile: the instance it leaves, with the returned
\* value recorded in it
Streaming_percentile(q, p) ==
  IF Len(q.buffer) = 0
  THEN [q EXCEPT !.queries = @ + 1, !.p = p, !.value = 0,
                 !.prev_p = q.p, !.prev_value = q.value]
  ELSE LET e == Streaming_ensure_sorted(q)
           n == Len(e.sorted_cache)
           idx == Min(Max(IntPart(p * n, 100), 0), n - 1)
       IN [e EXCEPT !.queries = @ + 1, !.p = p, !.value = e.sorted_cache[idx + 1],
                    !.prev_p = q.p, !.prev_value = q.value]

----------------------------------------------------------------------------
(* metrics_collector.py: MetricsCollector.  The class holds no lock, so a
   statement "self.x += n" executed by two threads is a load and a store that
   can interleave. *)

RecordingAPI == {"record_send", "record_recv", "record_loss", "record_latency", "record_error"}

\* the orchestration flow and a driver's delivery callback thread
Threads == {"orchestrator", "callback"}

Idle == [op |-> "idle", tmp |-> 0, arg |-> 0]

LossCounts == {1, 2}   \* sampled count argument of record_loss

\* MetricsCollector.__init__
NewCollector ==
  [ packets_sent |-> 0, packets_recv |-> 0, packets_lost |-> 0,
    errors |-> << >>,      \* self.errors
    error_types |-> 0,     \* self.error_types[error_type], one error type
    buffer |-> << >>,      \* self.latencies.buffer
    total_count |-> 0 ]    \* self.latency_histogram.total_count

\* the attribute a recording method updates with +=
CounterOf(op) ==
  CASE op = "record_send" -> "packets_sent"
    [] op = "record_recv" -> "packets_recv"
    [] op = "record_loss" -> "packets_lost"
    [] op = "record_latency" -> "total_count"
    [] op = "record_error" -> "error_types"

\* the append a recording method makes before it updates its counter
Appended(m, op) ==
  CASE op = "record_latency" -> [m EXCEPT !.buffer = Append(@, 1)]
    [] op = "record_error" -> [m EXCEPT !.errors = Append(@, "error")]
    [] OTHER -> m

\* what has been recorded so far, and the calls in progress
Started ==
  recorded["record_send"] + recorded["record_recv"] + recorded["record_loss"]
    + recorded["record_latency"] + recorded["record_error"]
    + Cardinality({t \in Threads : thr[t].op # "idle"})

\* a thread enters a recording method: the append, and the load of the counter
RecordBegin ==
  /\ pc = "collector"
  /\ Started < MaxCalls
  /\ \E t \in Threads, op \in RecordingAPI :
       \E n \in (IF op = "record_loss" THEN LossCounts ELSE {1}) :
         /\ thr[t].op = "idle"
         /\ mc' = Appended(mc, op)
         /\ thr' = [thr EXCEPT ![t] = [op |-> op, tmp |-> mc[CounterOf(op)], arg |-> n]]
  /\ UNCHANGED <<hist, sp, recorded, cfg, now, pc, inj, last, metrics, drv, calls, gen, cur, emitted, result>>

\* the thread stores the incremented counter and returns
RecordEnd ==
  /\ pc = "collector"
  /\ \E t \in Threads :
       /\ thr[t].op # "idle"
       /\ mc' = [mc EXCEPT ![CounterOf(thr[t].op)] = thr[t].tmp + thr[t].arg]
       /\ recorded' = [recorded EXCEPT ![thr[t].op] = @ + thr[t].arg]
       /\ thr' = [thr EXCEPT ![t] = Idle]
  /\ UNCHANGED <<hist, sp, cfg, now, pc, inj, last, metrics, drv, calls, gen, cur, emitted, result>>

\* MetricsCollector.get_summary: the counters and the loss rate, as a fraction
GetSummary(m) ==
  [ sent |-> m.packets_sent, recv |-> m.packets_recv, lost |-> m.packets_lost,
    loss |-> [num |-> Max(m.packets_sent, 1) - m.packets_recv, den |-> Max(m.packets_sent, 1)],
    errors |-> Len(m.errors), count |-> m.total_count ]

----------------------------------------------------------------------------
(* orchestrator.py and main.py: run_single_test *)

NewMetrics == [sent |-> 0, recv |-> 0, lat |-> << >>, err |-> << >>]

NoSummary == [written |-> FALSE]

NoResult ==
  [ ok |-> FALSE, exc |-> "none", returned |-> "none", summary |-> NoSummary, stop_raised |-> FALSE ]

NoReading == [client_id |-> NoTarget, data |-> NoData, to |-> 0]

\* Orchestrator.save_report: the summary record
SaveReport(m, d) ==
  [ written |-> TRUE, mode |-> d.mode, sent |-> m.sent, recv |-> m.recv,
    loss |-> [num |-> Max(m.sent, 1) - m.recv, den |-> Max(m.sent, 1)],
    errors |-> Len(m.err) ]

\* recv.log: absent, or lines that are either unparsable or "seq lat_us"
Unparsable == -1
LogLine == {Unparsable, 1000, 2000}
NoLog == [exists |-> FALSE, lines |-> << >>]
RecvLogs == {NoLog} \cup {[exists |-> TRUE, lines |-> l] : l \in UNION {[1..n -> LogLine] : n \in 0..MaxLogLines}}

\* the for loop of _parse_recv_log over the lines from k on
RECURSIVE ParseLines(_, _, _)
ParseLines(m, lines, k) ==
  IF k > Len(lines) THEN m
  ELSE IF lines[k] = Unparsable THEN ParseLines(m, lines, k + 1)
       ELSE ParseLines([m EXCEPT !.lat = Append(@, lines[k] \div 1000), !.recv = @ + 1], lines, k + 1)

\* variant: the sent estimate is left out
ParseRecvLogNoEstimate(m, log) ==
  IF ~log.exists THEN m ELSE ParseLines(m, log.lines, 1)

\* Orchestrator._parse_recv_log
ParseRecvLog(m, log) ==
  IF ~log.exists THEN m
  ELSE LET parsed == ParseLines(m, log.lines, 1) IN [parsed EXCEPT !.sent = Max(parsed.recv, 1)]

\* run_single_test: validate_config(cfg)
Validate ==
  /\ pc = "validate"
  /\ pc' = IF ValidateConfig(cfg) THEN "create" ELSE "rejected"
  /\ UNCHANGED <<hist, sp, mc, thr, recorded, cfg, now, inj, last, metrics, drv, calls, gen, cur, emitted, result>>

\* run_single_test: Orchestrator(cfg["protocol"], cfg), which may fail to load
CreateOrchestrator ==
  /\ pc = "create"
  /\ \/ /\ pc' = "setup"
        /\ drv' = NewProtocol(cfg)
        /\ metrics' = NewMetrics
        /\ UNCHANGED result
     \/ /\ pc' = "done"
        /\ result' = [result EXCEPT !.returned = "false", !.exc = "load"]
        /\ UNCHANGED <<drv, metrics>>
  /\ UNCHANGED <<hist, sp, mc, thr, recorded, cfg, now, inj, last, calls, gen, cur, emitted>>

\* run_single_test: wrap send_data if configured, create the stream
SetupInjection ==
  /\ pc = "setup"
  /\ inj' = IF cfg.has_fi THEN NewInjector(cfg, now) ELSE NoInjector
  /\ gen' = NewStream
  /\ pc' = "start_server"
  /\ UNCHANGED <<hist, sp, mc, thr, recorded, cfg, now, last, metrics, drv, calls, cur, emitted, result>>

\* variant: a failed start_server does not end run_test
StartServerStepNoReturn ==
  /\ pc = "start_server"
  /\ \E o \in StartServer(drv) :
       /\ drv' = o.drv
       /\ calls' = Append(calls, [op |-> "start_server", raised |-> o.raised])
       /\ pc' = "start_clients"
       /\ now' = now + SettleDelay
       /\ UNCHANGED result
  /\ UNCHANGED <<hist, sp, mc, thr, recorded, cfg, inj, last, metrics, gen, cur, emitted>>

\* run_test: self.protocol.start_server(); time.sleep(0.5)
StartServerStep ==
  /\ pc = "start_server"
  /\ \E o \in StartServer(drv) :
       /\ drv' = o.drv
       /\ calls' = Append(calls, [op |-> "start_server", raised |-> o.raised])
       /\ IF o.raised
          THEN /\ pc' = "finally"
               /\ result' = [result EXCEPT !.ok = FALSE, !.exc = "start"]
               /\ now' = now
          ELSE /\ pc' = "start_clients"
               /\ now' = now + SettleDelay
               /\ UNCHANGED result
  /\ UNCHANGED <<hist, sp, mc, thr, recorded, cfg, inj, last, metrics, gen, cur, emitted>>

\* where run_test goes once server and clients are up
Route(d, c) ==
  IF d.mode = "active"
  THEN IF c.num_clients = 0 THEN "listen" ELSE "loop"
  ELSE "passive"

\* run_test: start_clients only if num_clients > 0, then route on the mode
StartClientsStep ==
  /\ pc = "start_clients"
  /\ IF cfg.num_clients > 0
     THEN \E o \in StartClients(drv, cfg.num_clients) :
            /\ drv' = o.drv
            /\ calls' = Append(calls, [op |-> "start_clients", raised |-> o.raised])
            /\ IF o.raised
               THEN /\ pc' = "finally"
                    /\ result' = [result EXCEPT !.ok = FALSE, !.exc = "start"]
                    /\ now' = now
               ELSE /\ pc' = Route(drv, cfg)
                    /\ now' = now + SettleDelay
                    /\ UNCHANGED result
     ELSE /\ pc' = Route(drv, cfg)
          /\ UNCHANGED <<drv, calls, now, result>>
  /\ UNCHANGED <<hist, sp, mc, thr, recorded, cfg, inj, last, metrics, gen, cur, emitted>>

\* _run_active with num_clients = 0: listen for the duration
Listen ==
  /\ pc = "listen"
  /\ now' = now + cfg.duration
  /\ result' = [result EXCEPT !.ok = TRUE]
  /\ pc' = "finally"
  /\ UNCHANGED <<hist, sp, mc, thr, recorded, cfg, inj, last, metrics, drv, calls, gen, cur, emitted>>

\* _run_active: take the next Reading, check liveness, tag the payload
LoopNext ==
  /\ pc = "loop"
  /\ Len(emitted) < MaxReadings
  /\ now' = StreamNextReturns(gen, cfg, now)
  /\ LET nx == StreamNext(gen, cfg, now) IN
       /\ gen' = nx.gen
       /\ IF ~nx.yielded
          THEN /\ pc' = "finally"
               /\ result' = [result EXCEPT !.ok = TRUE]
               /\ UNCHANGED <<cur, emitted>>
          ELSE /\ emitted' = Append(emitted, nx.reading)
               /\ IF ~IsAlive(drv)
                  THEN /\ pc' = "finally"
                       /\ result' = [result EXCEPT !.ok = TRUE]
                       /\ UNCHANGED cur
                  ELSE /\ pc' = "send"
                       /\ cur' = [nx.reading EXCEPT !.data.node_id = "node"]
                       /\ UNCHANGED result
  /\ UNCHANGED <<hist, sp, mc, thr, recorded, cfg, inj, last, metrics, drv, calls>>

\* variant: a server timestamp equal to t0 counts as valid
RecordSendInclusive(m, t0, ok, t_srv) ==
  IF ok /\ t_srv # 0 /\ t_srv >= t0
  THEN [m EXCEPT !.sent = @ + 1, !.lat = Append(@, t_srv - t0), !.recv = @ + 1]
  ELSE [m EXCEPT !.sent = @ + 1]

\* variant: only a successful send counts as sent
RecordSendOnlyOk(m, t0, ok, t_srv) ==
  IF ok /\ t_srv # 0 /\ t_srv > t0
  THEN [m EXCEPT !.sent = @ + 1, !.lat = Append(@, t_srv - t0), !.recv = @ + 1]
  ELSE IF ok THEN [m EXCEPT !.sent = @ + 1] ELSE m

\* variant: every successful send counts as received
RecordSendCountsRecv(m, t0, ok, t_srv) ==
  IF ok /\ t_srv # 0 /\ t_srv > t0
  THEN [m EXCEPT !.sent = @ + 1, !.lat = Append(@, t_srv - t0), !.recv = @ + 1]
  ELSE IF ok THEN [m EXCEPT !.sent = @ + 1, !.recv = @ + 1]
       ELSE [m EXCEPT !.sent = @ + 1]

\* _run_active: account for one returned send
RecordSend(m, t0, ok, t_srv) ==
  IF ok /\ t_srv # 0 /\ t_srv > t0
  THEN [m EXCEPT !.sent = @ + 1, !.lat = Append(@, t_srv - t0), !.recv = @ + 1]
  ELSE [m EXCEPT !.sent = @ + 1]

\* variant: an exception of send_data leaves run_test
LoopSendPropagates ==
  /\ pc = "send"
  /\ ProtocolSend(cur.client_id, cur.data)
  /\ metrics' = IF last'.kind = "raise"
                THEN metrics
                ELSE RecordSend(metrics, now, last'.ok, last'.t_srv)
  /\ pc' = IF last'.kind = "raise" THEN "finally" ELSE "sleep"
  /\ result' = IF last'.kind = "raise"
               THEN [result EXCEPT !.ok = FALSE, !.exc = "Exception"]
               ELSE result
  /\ UNCHANGED <<hist, sp, mc, thr, recorded, cfg, drv, gen, cur, emitted>>

\* _run_active: t0, send_data, metrics, sleep(to)
LoopSend ==
  /\ pc = "send"
  /\ ProtocolSend(cur.client_id, cur.data)
  /\ metrics' = IF last'.kind = "raise"
                THEN [metrics EXCEPT !.err = Append(@, "exception")]
                ELSE RecordSend(metrics, now, last'.ok, last'.t_srv)
  /\ pc' = IF last'.kind = "raise" THEN "loop" ELSE "sleep"
  /\ UNCHANGED <<hist, sp, mc, thr, recorded, cfg, drv, gen, cur, emitted, result>>

\* _run_active: time.sleep(to)
LoopSleep ==
  /\ pc = "sleep"
  /\ now' = now + cur.to
  /\ pc' = "loop"
  /\ UNCHANGED <<hist, sp, mc, thr, recorded, cfg, inj, last, metrics, drv, calls, gen, cur, emitted, result>>

\* _run_passive: sleep for the duration, then parse recv.log
Passive ==
  /\ pc = "passive"
  /\ now' = now + cfg.duration
  /\ \E log \in RecvLogs : metrics' = ParseRecvLog(metrics, log)
  /\ result' = [result EXCEPT !.ok = TRUE]
  /\ pc' = "finally"
  /\ UNCHANGED <<hist, sp, mc, thr, recorded, cfg, inj, last, drv, calls, gen, cur, emitted>>

InRunTest == pc \in {"start_server", "start_clients", "listen", "loop", "send", "sleep", "passive"}

\* variant: the handler leaves without the finally block
InterruptSkipsFinally ==
  /\ InRunTest
  /\ \E e \in {"KeyboardInterrupt", "Exception"} :
       result' = [result EXCEPT !.ok = FALSE, !.exc = e]
  /\ pc' = "save"
  /\ UNCHANGED <<hist, sp, mc, thr, recorded, cfg, now, inj, last, metrics, drv, calls, gen, cur, emitted>>

\* KeyboardInterrupt, or another exception escaping run_test
Interrupt ==
  /\ InRunTest
  /\ \E e \in {"KeyboardInterrupt", "Exception"} :
       result' = [result EXCEPT !.ok = FALSE, !.exc = e]
  /\ pc' = "finally"
  /\ UNCHANGED <<hist, sp, mc, thr, recorded, cfg, now, inj, last, metrics, drv, calls, gen, cur, emitted>>

\* the driver stops being alive while the run is going on: an mqtt publisher
\* loses its connection, a plug-in driver clears its _alive flag
Disconnect ==
  /\ pc \in {"loop", "send", "sleep"}
  /\ \/ /\ drv.protocol = "mqtt"
        /\ drv.connected > 0
        /\ drv' = [drv EXCEPT !.connected = @ - 1]
     \/ /\ drv.protocol = "plugin"
        /\ drv.alive
        /\ drv' = [drv EXCEPT !.alive = FALSE]
  /\ UNCHANGED <<hist, sp, mc, thr, recorded, cfg, now, pc, inj, last, metrics, calls, gen, cur, emitted, result>>

\* run_single_test: finally: orch.protocol.stop()
Finally ==
  /\ pc = "finally"
  /\ \E o \in Stop(drv) :
       /\ drv' = o.drv
       /\ calls' = Append(calls, [op |-> "stop", raised |-> o.raised])
       /\ result' = [result EXCEPT !.stop_raised = o.raised,
                                   !.returned = IF o.raised THEN "raised" ELSE @]
       /\ pc' = IF o.raised THEN "done" ELSE "save"
  /\ UNCHANGED <<hist, sp, mc, thr, recorded, cfg, now, inj, last, metrics, gen, cur, emitted>>

\* variant: the report is written after every run
SaveResultsAlways ==
  /\ pc = "save"
  /\ result' = [result EXCEPT !.summary = SaveReport(metrics, drv), !.returned = "true"]
  /\ pc' = "done"
  /\ UNCHANGED <<hist, sp, mc, thr, recorded, cfg, now, inj, last, metrics, drv, calls, gen, cur, emitted>>

\* run_single_test: save the report if ok or sent > 0
SaveResults ==
  /\ pc = "save"
  /\ IF result.ok \/ metrics.sent > 0
     THEN result' = [result EXCEPT !.summary = SaveReport(metrics, drv), !.returned = "true"]
     ELSE result' = [result EXCEPT !.returned = "false"]
  /\ pc' = "done"
  /\ UNCHANGED <<hist, sp, mc, thr, recorded, cfg, now, inj, last, metrics, drv, calls, gen, cur, emitted>>

Init ==
  /\ cfg \in Configs(RunFaultConfigs)
  /\ now = 1
  /\ pc = "validate"
  /\ inj = NoInjector
  /\ last = NoCall
  /\ metrics = NewMetrics
  /\ drv = NewProtocol(cfg)
  /\ calls = << >>
  /\ gen = NewStream
  /\ cur = NoReading
  /\ emitted = << >>
  /\ result = NoResult
  /\ mc = NewCollector
  /\ thr = [t \in Threads |-> Idle]
  /\ recorded = [op \in RecordingAPI |-> 0]
  /\ sp = NoStreaming
  /\ hist = NoHistogram

Next ==
  \/ Validate
  \/ CreateOrchestrator
  \/ SetupInjection
  \/ StartServerStep
  \/ StartClientsStep
  \/ Listen
  \/ LoopNext
  \/ LoopSend
  \/ LoopSleep
  \/ Passive
  \/ Interrupt
  \/ Disconnect
  \/ Finally
  \/ SaveResults

Spec == Init /\ [][Next]_vars

----------------------------------------------------------------------------
(* Harness on the injector: a FailureInjector wrapped around a plug-in's
   send_data, called at arbitrary times for arbitrary clients *)

HarnessCrashSchedules == {<< >>, <<2>>, <<2, 3>>}
HarnessPartitionCfgs == {NoCfg, [present |-> TRUE, start_sec |-> 2, duration_sec |-> 2]}

\* how many kinds of fault a failure_injection record asks for
Features(f) ==
  (IF f.packet_loss > 0 THEN 1 ELSE 0) + (IF f.message_corruption > 0 THEN 1 ELSE 0)
  + (IF f.client_crashes # << >> THEN 1 ELSE 0) + (IF f.network_partition.present THEN 1 ELSE 0)
  + (IF f.latency_spike.present /\ f.latency_spike.probability > 0 THEN 1 ELSE 0)

\* the harness explores every fault alone, and all of them together
HarnessFaultConfigs ==
  { f \in [ packet_loss : Rates, message_corruption : {0, 100},
            client_crashes : HarnessCrashSchedules,
            network_partition : HarnessPartitionCfgs, latency_spike : SpikeCfgs ] :
      \/ Features(f) <= 1
      \/ Features(f) = 5 /\ f.packet_loss = 50 /\ Len(f.client_crashes) = 1 }

\* the wrapped driver: any plug-in when no fault is configured, the template
\* driver otherwise
HarnessConfigs ==
  { BaseConfig(IF Features(fh[1]) = 0 THEN "plugin" ELSE "template",
               "active", "core", MaxClients, MaxDuration, TRUE, fh[1], fh[2]) :
      fh \in {x \in HarnessFaultConfigs \X [0..(MaxClients - 1) -> {0, 1}] : x[2] \in Parities(x[1])} }

HarnessData(cid) ==
  [ dev_id |-> cid, ts |-> now, seq_no |-> last.n + 1, sensor_data |-> "temp", node_id |-> "node" ]

InitInj ==
  /\ cfg \in HarnessConfigs
  /\ now = 1
  /\ pc = "harness"
  /\ inj = NewInjector(cfg, 1)
  /\ last = NoCall
  /\ metrics = NewMetrics
  /\ drv = NewProtocol(cfg)
  /\ calls = << >>
  /\ gen = NewStream
  /\ cur = NoReading
  /\ emitted = << >>
  /\ result = NoResult
  /\ mc = NewCollector
  /\ thr = [t \in Threads |-> Idle]
  /\ recorded = [op \in RecordingAPI |-> 0]
  /\ sp = NoStreaming
  /\ hist = NoHistogram

\* wrapped_send(client_id, data)
HarnessSend ==
  /\ pc = "harness"
  /\ last.n < MaxSends
  /\ \E cid \in 0..(MaxClients - 1) : WrappedSend(cid, HarnessData(cid))
  /\ UNCHANGED <<hist, sp, mc, thr, recorded, cfg, pc, metrics, drv, gen, cur, emitted, result>>

\* injector.revive_client(client_id)
HarnessRevive ==
  /\ pc = "harness"
  /\ \E id \in CrashIds :
       /\ id \in inj.crashed_clients
       /\ inj' = ReviveClient(inj, now, id)
       /\ last' = [last EXCEPT !.kind = "revive", !.cid = id]
  /\ UNCHANGED <<hist, sp, mc, thr, recorded, cfg, now, pc, metrics, drv, calls, gen, cur, emitted, result>>

\* time passes
HarnessTick ==
  /\ pc = "harness"
  /\ now < MaxTime
  /\ now' = now + 1
  /\ UNCHANGED <<hist, sp, mc, thr, recorded, cfg, pc, inj, last, metrics, drv, calls, gen, cur, emitted, result>>

NextInj == HarnessSend \/ HarnessRevive \/ HarnessTick

SpecInj == InitInj /\ [][NextInj]_vars

----------------------------------------------------------------------------
(* harness: one injector used for a long run by a single client, with
   summaries taken along the way *)

\* one fault at a time, at full rate
SummaryFaultConfigs ==
  { f \in HarnessFaultConfigs :
      /\ Features(f) = 1
      /\ f.packet_loss \in {0, 100}
      /\ Len(f.client_crashes) <= 1 }

SummaryConfigs ==
  { BaseConfig("template", "active", "core", MaxClients, MaxDuration, TRUE, f, NoParity) :
      f \in SummaryFaultConfigs }

InitSum ==
  /\ cfg \in SummaryConfigs
  /\ now = 1
  /\ pc = "summary"
  /\ inj = NewInjector(cfg, 1)
  /\ last = NoCall
  /\ metrics = NewMetrics
  /\ drv = NewProtocol(cfg)
  /\ calls = << >>
  /\ gen = NewStream
  /\ cur = NoReading
  /\ emitted = << >>
  /\ result = NoResult
  /\ mc = NewCollector
  /\ thr = [t \in Threads |-> Idle]
  /\ recorded = [op \in RecordingAPI |-> 0]
  /\ sp = NoStreaming
  /\ hist = NoHistogram

\* the long run is made under certain packet loss, where every send logs
\* exactly one event; the other faults get a short run
SummarySends == IF cfg.failure_injection.packet_loss = 100 THEN MaxEvents ELSE MaxSends

\* wrapped_send("client_0", data)
SummarySend ==
  /\ pc = "summary"
  /\ last.n < SummarySends
  /\ WrappedSend(0, HarnessData(0))
  /\ UNCHANGED <<hist, sp, mc, thr, recorded, cfg, pc, metrics, drv, gen, cur, emitted, result>>

\* injector.revive_client(client_id)
SummaryRevive ==
  /\ pc = "summary"
  /\ \E id \in CrashIds :
       /\ id \in inj.crashed_clients
       /\ inj' = ReviveClient(inj, now, id)
       /\ last' = [last EXCEPT !.kind = "revive", !.cid = id]
  /\ UNCHANGED <<hist, sp, mc, thr, recorded, cfg, now, pc, metrics, drv, calls, gen, cur, emitted, result>>

\* injector.get_failure_summary(): the caller keeps the returned summary
SummaryTake ==
  /\ pc = "summary"
  /\ result.summary # GetFailureSummary(inj)
  /\ result' = [result EXCEPT !.summary = GetFailureSummary(inj)]
  /\ UNCHANGED <<hist, sp, mc, thr, recorded, cfg, now, pc, inj, last, metrics, drv, calls, gen, cur, emitted>>

\* time passes between the first sends of the run
SummaryTick ==
  /\ pc = "summary"
  /\ now < MaxTime
  /\ last.n < MaxSends
  /\ now' = now + 1
  /\ UNCHANGED <<hist, sp, mc, thr, recorded, cfg, pc, inj, last, metrics, drv, calls, gen, cur, emitted, result>>

NextSum == SummarySend \/ SummaryRevive \/ SummaryTake \/ SummaryTick

SpecSum == InitSum /\ [][NextSum]_vars

----------------------------------------------------------------------------
(* Harness on the generator: a consumer calling next(stream) at arbitrary times *)

StreamConfigs ==
  { BaseConfig("plugin", "active", "core", n, d, FALSE, NoFaults, NoParity) :
      n \in 0..MaxClients, d \in 1..MaxDuration }

InitGen ==
  /\ cfg \in StreamConfigs
  /\ now = 1
  /\ pc = "stream"
  /\ inj = NoInjector
  /\ last = NoCall
  /\ metrics = NewMetrics
  /\ drv = NewProtocol(cfg)
  /\ calls = << >>
  /\ gen = NewStream
  /\ cur = NoReading
  /\ emitted = << >>
  /\ result = NoResult
  /\ mc = NewCollector
  /\ thr = [t \in Threads |-> Idle]
  /\ recorded = [op \in RecordingAPI |-> 0]
  /\ sp = NoStreaming
  /\ hist = NoHistogram

\* next(stream)
StreamStep ==
  /\ pc = "stream"
  /\ ~gen.finished
  /\ Len(emitted) < MaxReadings + MaxClients
  /\ LET nx == StreamNext(gen, cfg, now) IN
       /\ gen' = nx.gen
       /\ now' = StreamNextReturns(gen, cfg, now)
       /\ IF nx.yielded
          THEN /\ emitted' = Append(emitted, nx.reading)
               /\ cur' = nx.reading
          ELSE UNCHANGED <<emitted, cur>>
  /\ UNCHANGED <<hist, sp, mc, thr, recorded, cfg, pc, inj, last, metrics, drv, calls, result>>

\* time passes between two next() calls
StreamTick ==
  /\ pc = "stream"
  /\ now < MaxTime
  /\ now' = now + 1
  /\ UNCHANGED <<hist, sp, mc, thr, recorded, cfg, pc, inj, last, metrics, drv, calls, gen, cur, emitted, result>>

NextGen == StreamStep \/ StreamTick

SpecGen == InitGen /\ [][NextGen]_vars

----------------------------------------------------------------------------
(* Harness on the generator late in a long stream: the frame of
   generate_sensor_stream at the top of its while loop after seq_no Readings,
   with the duration not yet elapsed.  emitted holds the Readings yielded from
   this point on. *)

LateStreamConfigs ==
  { BaseConfig("plugin", "active", "core", n, d, FALSE, NoFaults, NoParity) :
      n \in 1..MaxClients, d \in 1..MaxDuration }

\* the counter values at the top of the while loop: whole passes only
LateCounters(c) ==
  { k \in (SeqModulus - 4)..(SeqModulus - 1) : k % c.num_clients = 0 }

InitSeq ==
  /\ cfg \in LateStreamConfigs
  /\ now = 1
  /\ pc = "stream"
  /\ inj = NoInjector
  /\ last = NoCall
  /\ metrics = NewMetrics
  /\ drv = NewProtocol(cfg)
  /\ calls = << >>
  /\ \E k \in LateCounters(cfg) :
       gen = [NewStream EXCEPT !.started = TRUE, !.start_time = 1, !.seq_no = k]
  /\ cur = NoReading
  /\ emitted = << >>
  /\ result = NoResult
  /\ mc = NewCollector
  /\ thr = [t \in Threads |-> Idle]
  /\ recorded = [op \in RecordingAPI |-> 0]
  /\ sp = NoStreaming
  /\ hist = NoHistogram

NextSeq == StreamStep \/ StreamTick

SpecSeq == InitSeq /\ [][NextSeq]_vars

----------------------------------------------------------------------------
(* Harness on the generator with a consumer that keeps calling next(stream)
   while time passes.  Each yield takes time: at most MaxReadings Readings
   carry the same clock value. *)

\* Readings yielded at clock value t
ReadingsAt(t) ==
  Cardinality({ i \in 1..Len(emitted) : emitted[i].data.ts = t })

\* the latest clock value observed: every stream that started by MaxTime and
\* honours its duration has ended its last pass by then
LastTime == MaxTime + MaxDuration + MaxClients

InitLive ==
  /\ cfg \in StreamConfigs
  /\ now = 1
  /\ pc = "live"
  /\ inj = NoInjector
  /\ last = NoCall
  /\ metrics = NewMetrics
  /\ drv = NewProtocol(cfg)
  /\ calls = << >>
  /\ gen = NewStream
  /\ cur = NoReading
  /\ emitted = << >>
  /\ result = NoResult
  /\ mc = NewCollector
  /\ thr = [t \in Threads |-> Idle]
  /\ recorded = [op \in RecordingAPI |-> 0]
  /\ sp = NoStreaming
  /\ hist = NoHistogram

\* next(stream)
LiveStep ==
  /\ pc = "live"
  /\ ~gen.finished
  /\ LET nx == StreamNext(gen, cfg, now) IN
       /\ nx.yielded => ReadingsAt(now) < MaxReadings
       /\ gen' = nx.gen
       /\ now' = StreamNextReturns(gen, cfg, now)
       /\ IF nx.yielded
          THEN /\ emitted' = Append(emitted, nx.reading)
               /\ cur' = nx.reading
          ELSE UNCHANGED <<emitted, cur>>
  /\ UNCHANGED <<hist, sp, mc, thr, recorded, cfg, pc, inj, last, metrics, drv, calls, result>>

\* time passes; the first next() is called by MaxTime
LiveTick ==
  /\ pc = "live"
  /\ ~gen.finished
  /\ now < (IF gen.started THEN LastTime ELSE MaxTime)
  /\ now' = now + 1
  /\ UNCHANGED <<hist, sp, mc, thr, recorded, cfg, pc, inj, last, metrics, drv, calls, gen, cur, emitted, result>>

NextLive == LiveStep \/ LiveTick

\* the consumer's for loop keeps calling next(stream), and the clock advances
SpecLive == InitLive /\ [][NextLive]_vars /\ WF_vars(LiveStep) /\ WF_vars(LiveTick)

----------------------------------------------------------------------------
(* Harness on the bundled drivers: life-cycle calls in any order, with the
   driver's send_data wrapped by an injector or not *)

DriverConfigs ==
  { BaseConfig(p, "active", "core", n, 1, h, f, NoParity) :
      p \in Bundled, n \in 1..MaxClients, h \in BOOLEAN,
      f \in {NoFaults, [NoFaults EXCEPT !.packet_loss = 50]} }

InitDrv ==
  /\ cfg \in DriverConfigs
  /\ now = 1
  /\ pc = "driver"
  /\ inj = IF cfg.has_fi THEN NewInjector(cfg, 1) ELSE NoInjector
  /\ last = NoCall
  /\ metrics = NewMetrics
  /\ drv = NewProtocol(cfg)
  /\ calls = << >>
  /\ gen = NewStream
  /\ cur = NoReading
  /\ emitted = << >>
  /\ result = NoResult
  /\ mc = NewCollector
  /\ thr = [t \in Threads |-> Idle]
  /\ recorded = [op \in RecordingAPI |-> 0]
  /\ sp = NoStreaming
  /\ hist = NoHistogram

\* protocol.start_server()
DriverStartServer ==
  /\ pc = "driver"
  /\ calls = << >>
  /\ \E o \in StartServer(drv) :
       /\ drv' = o.drv
       /\ calls' = Append(calls, [op |-> "start_server", raised |-> o.raised])
  /\ UNCHANGED <<hist, sp, mc, thr, recorded, cfg, now, pc, inj, last, metrics, gen, cur, emitted, result>>

\* protocol.start_clients(num_clients)
DriverStartClients ==
  /\ pc = "driver"
  /\ Len(calls) = 1 /\ calls[1].op = "start_server"
  /\ \E o \in StartClients(drv, cfg.num_clients) :
       /\ drv' = o.drv
       /\ calls' = Append(calls, [op |-> "start_clients", raised |-> o.raised])
  /\ UNCHANGED <<hist, sp, mc, thr, recorded, cfg, now, pc, inj, last, metrics, gen, cur, emitted, result>>

\* protocol.send_data(client_id, data)
DriverSend ==
  /\ pc = "driver"
  /\ last.n < MaxSends - 1
  /\ drv.stops = 0
  /\ ProtocolSend(0, HarnessData(0))
  /\ UNCHANGED <<hist, sp, mc, thr, recorded, cfg, pc, metrics, drv, gen, cur, emitted, result>>

\* protocol.stop()
DriverStop ==
  /\ pc = "driver"
  /\ drv.stops < MaxStops
  /\ \E o \in Stop(drv) :
       /\ drv' = o.drv
       /\ calls' = Append(calls, [op |-> "stop", raised |-> o.raised])
       /\ result' = [result EXCEPT !.stop_raised = o.raised]
       /\ pc' = IF o.raised THEN "raised" ELSE "driver"
  /\ UNCHANGED <<hist, sp, mc, thr, recorded, cfg, now, inj, last, metrics, gen, cur, emitted>>

NextDrv == DriverStartServer \/ DriverStartClients \/ DriverSend \/ DriverStop

SpecDrv == InitDrv /\ [][NextDrv]_vars
----------------------------------------------------------------------------
(* Harness on the MetricsCollector: two threads calling the recording API *)

InitMet ==
  /\ cfg = BaseConfig("template", "active", "core", 1, 1, FALSE, NoFaults, NoParity)
  /\ now = 1
  /\ pc = "collector"
  /\ inj = NoInjector
  /\ last = NoCall
  /\ metrics = NewMetrics
  /\ drv = NewProtocol(cfg)
  /\ calls = << >>
  /\ gen = NewStream
  /\ cur = NoReading
  /\ emitted = << >>
  /\ result = NoResult
  /\ mc = NewCollector
  /\ thr = [t \in Threads |-> Idle]
  /\ recorded = [op \in RecordingAPI |-> 0]
  /\ sp = NoStreaming
  /\ hist = NoHistogram

NextMet == RecordBegin \/ RecordEnd

SpecMet == InitMet /\ [][NextMet]_vars

----------------------------------------------------------------------------
(* Harness on StreamingPercentile: add and percentile calls in any order *)

InitPct ==
  /\ cfg = BaseConfig("template", "active", "core", 1, 1, FALSE, NoFaults, NoParity)
  /\ now = 1
  /\ pc = "percentile"
  /\ inj = NoInjector
  /\ last = NoCall
  /\ metrics = NewMetrics
  /\ drv = NewProtocol(cfg)
  /\ calls = << >>
  /\ gen = NewStream
  /\ cur = NoReading
  /\ emitted = << >>
  /\ result = NoResult
  /\ mc = NewCollector
  /\ thr = [t \in Threads |-> Idle]
  /\ recorded = [op \in RecordingAPI |-> 0]
  /\ \E size \in 0..MaxBuffer : sp = Streaming_init(size)
  /\ hist = NoHistogram

\* sp.add(v)
PctAdd ==
  /\ pc = "percentile"
  /\ Len(sp.added) < MaxAdds
  /\ \E v \in Samples : sp' = Streaming_add(sp, v)
  /\ UNCHANGED <<hist, mc, thr, recorded, cfg, now, pc, inj, last, metrics, drv, calls, gen, cur, emitted, result>>

\* sp.percentile(p)
PctQuery ==
  /\ pc = "percentile"
  /\ sp.queries < MaxCalls
  /\ \E p \in Percentiles : sp' = Streaming_percentile(sp, p)
  /\ UNCHANGED <<hist, mc, thr, recorded, cfg, now, pc, inj, last, metrics, drv, calls, gen, cur, emitted, result>>

NextPct == PctAdd \/ PctQuery

SpecPct == InitPct /\ [][NextPct]_vars

----------------------------------------------------------------------------
(* Harness on HistogramBucket: add and percentile calls in any order *)

InitHist ==
  /\ cfg = BaseConfig("template", "active", "core", 1, 1, FALSE, NoFaults, NoParity)
  /\ now = 1
  /\ pc = "histogram"
  /\ inj = NoInjector
  /\ last = NoCall
  /\ metrics = NewMetrics
  /\ drv = NewProtocol(cfg)
  /\ calls = << >>
  /\ gen = NewStream
  /\ cur = NoReading
  /\ emitted = << >>
  /\ result = NoResult
  /\ mc = NewCollector
  /\ thr = [t \in Threads |-> Idle]
  /\ recorded = [op \in RecordingAPI |-> 0]
  /\ sp = NoStreaming
  /\ \E c \in HistConfigs : hist = Hist_init(c)

\* hist.add(v)
HistAdd ==
  /\ pc = "histogram"
  /\ hist.total_count < MaxAdds
  /\ \E v \in HistSamples(hist) : hist' = Hist_add(hist, v)
  /\ UNCHANGED <<sp, mc, thr, recorded, cfg, now, pc, inj, last, metrics, drv, calls, gen, cur, emitted, result>>

\* hist.percentile(p)
HistQuery ==
  /\ pc = "histogram"
  /\ \E p \in HistPercentiles : hist' = Hist_percentile(hist, p)
  /\ UNCHANGED <<sp, mc, thr, recorded, cfg, now, pc, inj, last, metrics, drv, calls, gen, cur, emitted, result>>

NextHist == HistAdd \/ HistQuery

SpecHist == InitHist /\ [][NextHist]_vars

----------------------------------------------------------------------------
(* Properties *)

\* positions in the call history of the driver at which op was invoked
CallOps(op) == {i \in 1..Len(calls) : calls[i].op = op}

C2_SummaryAccounting ==
  result.summary.written =>
    /\ result.summary.recv <= result.summary.sent
    /\ result.summary.loss.den = Max(result.summary.sent, 1)
    /\ result.summary.loss.num = result.summary.loss.den - result.summary.recv
    /\ 0 <= result.summary.loss.num
    /\ result.summary.loss.num <= result.summary.loss.den

\* a passive run whose recv.log had two parsable lines
C2_Witness ==
  /\ result.summary.written
  /\ result.summary.mode = "passive"
  /\ result.summary.recv = 2
  /\ result.summary.sent = 2

\* C3: the orchestrator drives the driver in the order start_server,
\* start_clients (only when num_clients > 0), sends, stop: start_server is the
\* first call, start_clients is the second and only follows a start_server
\* that returned, every send_data follows a returned start_server and a
\* returned start_clients and precedes stop, and nothing follows stop.
C3_DriverCallOrder ==
  /\ \A i \in CallOps("start_server") : i = 1
  /\ \A i \in CallOps("start_clients") :
       /\ i = 2
       /\ cfg.num_clients > 0
       /\ calls[1] = [op |-> "start_server", raised |-> FALSE]
  /\ \A i \in CallOps("send_data") :
       /\ i > 2
       /\ cfg.num_clients > 0
       /\ calls[1] = [op |-> "start_server", raised |-> FALSE]
       /\ calls[2] = [op |-> "start_clients", raised |-> FALSE]
       /\ \A k \in CallOps("stop") : i < k
  /\ \A i \in CallOps("stop") : i = Len(calls)

\* a run that went through all four kinds of call
C3_Witness ==
  /\ Len(calls) >= 4
  /\ calls[3].op = "send_data"
  /\ calls[Len(calls)].op = "stop"

\* the injector is configured with no fault at all
ZeroFaults ==
  /\ inj.present
  /\ inj.packet_loss_rate = 0
  /\ inj.corruption_rate = 0
  /\ inj.crash_times = << >>
  /\ ~inj.partition_cfg.present
  /\ (inj.latency_spike_cfg.present => inj.latency_spike_cfg.probability = 0)

\* C4: with packet_loss = 0, message_corruption = 0, no crashes, no partition
\* and no spike (or spike probability 0), every wrapped send invokes the
\* underlying send_data exactly once with the payload unchanged, gives back
\* what the driver did, adds no delay, and appends no FailureEvent.
C4_ZeroConfigTransparent ==
  (ZeroFaults /\ last.n > 0) =>
    /\ last.invoked = 1
    /\ Len(calls) = last.n
    /\ last.data_out = last.data_in
    /\ last.kind = last.under.kind
    /\ last.ok = last.under.ok
    /\ last.t_srv = last.under.t_srv
    /\ last.delay = 0
    /\ inj.events = << >>

\* two wrapped sends under a spike configuration of probability 0, the second
\* one acknowledged by the driver
C4_Witness ==
  /\ ZeroFaults
  /\ inj.latency_spike_cfg.present
  /\ last.n = 2
  /\ last.kind = "ret"
  /\ last.ok
  /\ last.t_srv > 0

\* C5: with packet_loss = 1.0 every wrapped send of the active loop returns
\* (False, 0.0) without invoking the driver; sent increments once per call,
\* recv stays 0, and the finalized loss is 1.0.
C5_TotalLoss ==
  (inj.present /\ inj.packet_loss_rate = 100 /\ drv.mode = "active") =>
    /\ CallOps("send_data") = {}
    /\ last.n > 0 => (last.kind = "ret" /\ ~last.ok /\ last.t_srv = 0 /\ last.invoked = 0)
    /\ metrics.sent = last.n
    /\ metrics.recv = 0
    /\ result.summary.written => result.summary.loss.num = result.summary.loss.den

\* a report written after two sends that were all dropped
C5_Witness ==
  /\ inj.present
  /\ inj.packet_loss_rate = 100
  /\ result.summary.written
  /\ result.summary.sent >= 2
  /\ result.summary.recv = 0
  /\ result.summary.loss.num = result.summary.loss.den

\* C6: a scheduled crash fires at most once: there are never more
\* client_crash events than entries in client_crashes.
C6_CrashFiresOnce ==
  inj.present =>
    Cardinality({i \in 1..Len(inj.events) : inj.events[i].failure_type = "client_crash"})
      <= Len(inj.crash_times)

\* the last wrapped call was a send that the injector dropped
Dropped(call) ==
  call.kind = "ret" /\ ~call.ok /\ call.t_srv = 0 /\ call.invoked = 0

\* C7: a wrapped send for a client id in the crashed set -- put there by an
\* earlier send or by this very send -- returns (False, 0.0) without invoking
\* the driver; ids leave the crashed set only through revive_client, which
\* removes the id, and a send is dropped for that reason only while its id is
\* in the set.
C7_CrashedUntilRevived ==
  [][ /\ (last'.n = last.n + 1) =>
           /\ (last'.cid \in inj.crashed_clients \/ last'.cid \in inj'.crashed_clients)
                => (Dropped(last') /\ Len(calls') = Len(calls))
           /\ inj.crashed_clients \subseteq inj'.crashed_clients
           /\ last'.reason = "crashed" => last'.cid \in inj'.crashed_clients
      /\ (last'.n = last.n /\ inj' # inj) =>
           /\ last'.kind = "revive"
           /\ last'.cid \in inj.crashed_clients
           /\ inj'.crashed_clients = inj.crashed_clients \ {last'.cid}
    ]_vars

\* a send that reached the driver for a client that had crashed and was revived
C7_Witness ==
  /\ last.n = 2
  /\ last.invoked = 1
  /\ \E i \in 1..Len(inj.events) :
       /\ inj.events[i].failure_type = "client_revive"
       /\ inj.events[i].target = last.cid
  /\ \E i \in 1..Len(inj.events) : inj.events[i].failure_type = "client_crash"

\* C8: the active loop records a latency sample, and counts the message as
\* received, only for a send that returned ok with a server timestamp
\* strictly greater than t0; t_srv = 0 or t_srv <= t0 adds no sample.
C8_LatencyNeedsLaterTimestamp ==
  [][ (last'.n = last.n + 1) =>
        /\ metrics'.sent = metrics.sent + (IF last'.kind = "ret" THEN 1 ELSE 0)
        /\ IF last'.kind = "ret" /\ last'.ok /\ last'.t_srv > last'.t0
           THEN /\ metrics'.lat = Append(metrics.lat, last'.t_srv - last'.t0)
                /\ metrics'.recv = metrics.recv + 1
           ELSE /\ metrics'.lat = metrics.lat
                /\ metrics'.recv = metrics.recv
    ]_vars

\* an acknowledged send whose non-zero timestamp is not after t0 left the
\* latency list empty
C8_Witness ==
  /\ last.n > 0
  /\ last.kind = "ret"
  /\ last.ok
  /\ last.t_srv > 0
  /\ last.t_srv <= last.t0
  /\ metrics.sent = last.n
  /\ metrics.lat = << >>
  /\ metrics.recv = 0

\* C9: on every bundled driver, wrapped by the injector or not, a second and
\* every later stop() returns without raising, leaves the driver stopped as
\* the first stop() left it, and appends no FailureEvent.
C9_StopIdempotent ==
  [][ (drv.stops >= 1 /\ drv'.stops = drv.stops + 1) =>
        /\ ~calls'[Len(calls')].raised
        /\ ~result'.stop_raised
        /\ ~IsAlive(drv')
        /\ drv' = [drv EXCEPT !.stops = @ + 1]
        /\ inj' = inj
    ]_vars

\* a driver stopped three times after the injector had logged an event
C9_Witness ==
  /\ drv.stops = 3
  /\ ~result.stop_raised
  /\ inj.present
  /\ inj.events # << >>

\* emitted[j] is the next Reading of the client of emitted[i]
NextOfClient(i, j) ==
  /\ i < j
  /\ emitted[i].client_id = emitted[j].client_id
  /\ \A k \in (i + 1)..(j - 1) : emitted[k].client_id # emitted[i].client_id

C11_NoReadingAfterDeadline ==
  \A k \in 1..Len(emitted) : emitted[k].data.ts - gen.start_time < cfg.duration

\* C12: with num_clients = 0 an active-mode run is a server-only listener:
\* start_clients and send_data are never invoked, sent stays 0 and no error is
\* recorded; a run_test that ran to its end returned True, and the report of
\* such a run is written with sent = 0 and no errors.
C12_ServerOnlyListener ==
  (cfg.num_clients = 0 /\ drv.mode = "active") =>
    /\ CallOps("start_clients") = {}
    /\ CallOps("send_data") = {}
    /\ last.n = 0
    /\ metrics.sent = 0
    /\ metrics.err = << >>
    /\ (pc \in {"finally", "save", "done"} /\ result.exc = "none") => result.ok
    /\ (pc = "done" /\ result.exc = "none") =>
         /\ result.summary.written
         /\ result.summary.sent = 0
         /\ result.summary.errors = 0

\* the loop was left because is_alive() was false: run_test returned True with
\* a Reading taken from the stream that was never handed to send_data
LivenessLost ==
  /\ result.ok
  /\ drv.mode = "active"
  /\ Len(emitted) > last.n

\* C13: when is_alive() is false for a Reading taken from the stream, the
\* loop ends with run_test returning True and without a send for that Reading;
\* no send is made once the loop is over; and a run that ended this way is
\* reported: its report is written and carries the metrics accumulated so far.
C13_LivenessLoss ==
  [][ /\ (pc = "loop" /\ emitted' # emitted /\ ~IsAlive(drv)) =>
           /\ pc' = "finally"
           /\ result'.ok
           /\ metrics' = metrics
           /\ last' = last
           /\ calls' = calls
      /\ (pc \in {"finally", "save", "done"}) =>
           /\ last' = last
           /\ metrics' = metrics
           /\ ~(Len(calls') > Len(calls) /\ calls'[Len(calls')].op = "send_data")
      /\ (pc' = "done" /\ LivenessLost') =>
           /\ result'.summary.written
           /\ result'.summary.sent = metrics.sent
           /\ result'.summary.recv = metrics.recv
           /\ result'.summary.errors = Len(metrics.err)
    ]_vars

\* C14: an exception raised by send_data for a Reading is appended to the
\* error list, counts neither as sent nor as received, and the loop goes on to
\* the next Reading; run_test's outcome is not touched.
C14_SendErrorContinues ==
  [][ (pc = "send" /\ last'.n = last.n + 1 /\ last'.kind = "raise") =>
        /\ Len(metrics'.err) = Len(metrics.err) + 1
        /\ metrics'.sent = metrics.sent
        /\ metrics'.recv = metrics.recv
        /\ metrics'.lat = metrics.lat
        /\ pc' = "loop"
        /\ result' = result
    ]_vars

\* a run that completed and was reported after a send raised and a later one
\* returned
C14_Witness ==
  /\ pc = "done"
  /\ result.ok
  /\ metrics.err # << >>
  /\ metrics.sent >= 1
  /\ last.kind = "ret"
  /\ result.summary.written
  /\ result.summary.errors >= 1

\* C15: if the driver cannot be loaded, or start_server or start_clients
\* raises, no send_data call is made, the metrics keep their initial values,
\* run_single_test does not report success, and no report is written.
C15_StartFailureAborts ==
  (result.exc \in {"load", "start"}) =>
    /\ CallOps("send_data") = {}
    /\ last.n = 0
    /\ metrics = NewMetrics
    /\ ~result.ok
    /\ ~result.summary.written
    /\ pc \notin {"listen", "loop", "send", "sleep", "passive"}
    /\ (pc = "done") => result.returned \in {"false", "raised"}
    /\ (pc = "done" /\ ~result.stop_raised) => result.returned = "false"

\* start_clients raised after start_server had returned; the run ended with
\* run_single_test returning False
C15_Witness ==
  /\ pc = "done"
  /\ result.exc = "start"
  /\ Len(calls) = 3
  /\ calls[2] = [op |-> "start_clients", raised |-> TRUE]
  /\ result.returned = "false"

\* C16: a stop() that raises after a run with usable results (run_test
\* returned True, or sent >= 1) does not prevent the report.
C16_StopFailureSwallowed ==
  (pc = "done" /\ result.stop_raised /\ (result.ok \/ metrics.sent >= 1)) =>
    result.summary.written

\* C17: after a run the report is written if and only if run_test returned
\* True or at least one message was sent; no report exists in any other case.
C17_ReportIffUsable ==
  /\ result.summary.written => (pc = "done" /\ (result.ok \/ metrics.sent > 0))
  /\ pc = "done" => (result.summary.written <=> (result.ok \/ metrics.sent > 0))

\* C18: a passive run_test returns True whatever recv.log holds; each parsed
\* line is one latency sample and one received message, and when no line
\* parsed the metrics are sent = 0 and recv = 0.
C18_ParseFailureEmptyMetrics ==
  (drv.mode = "passive" /\ pc \in {"finally", "save", "done"} /\ result.exc = "none") =>
    /\ result.ok
    /\ metrics.recv = Len(metrics.lat)
    /\ (metrics.lat = << >>) => (metrics.sent = 0 /\ metrics.recv = 0)

\* no recording call is in progress
Quiescent == \A t \in Threads : thr[t].op = "idle"

\* C19: once the concurrent recording calls have returned, every counter
\* equals what the calls of its kind recorded.
C19_NoLostUpdate ==
  Quiescent =>
    /\ mc.packets_sent = recorded["record_send"]
    /\ mc.packets_recv = recorded["record_recv"]
    /\ mc.packets_lost = recorded["record_loss"]
    /\ mc.total_count = recorded["record_latency"]
    /\ Len(mc.buffer) = recorded["record_latency"]
    /\ mc.error_types = recorded["record_error"]
    /\ Len(mc.errors) = recorded["record_error"]

\* C20: after any sequence of recording calls, get_summary reports
\* recv <= sent and loss = 1 - recv / max(sent, 1) with 0 <= loss <= 1.
C20_CollectorSummary ==
  Quiescent =>
    /\ GetSummary(mc).recv <= GetSummary(mc).sent
    /\ GetSummary(mc).loss.den = Max(GetSummary(mc).sent, 1)
    /\ GetSummary(mc).loss.num = GetSummary(mc).loss.den - GetSummary(mc).recv
    /\ 0 <= GetSummary(mc).loss.num
    /\ GetSummary(mc).loss.num <= GetSummary(mc).loss.den

----------------------------------------------------------------------------
(* network partition, order of the injector's steps, and the event log *)

\* the instant t lies between the activation of a partition, as logged, and
\* duration_sec later
PartitionWindow(j, t) ==
  \E i \in EventsOfType(j, "network_partition") :
    /\ j.events[i].time_sec <= t - j.start_time
    /\ t - j.start_time < j.events[i].time_sec + j.events[i].duration_sec

\* C21: a wrapped send made between the activation of a partition and
\* duration_sec later by a client with hash(client_id) % 2 = 0 is dropped
\* without invoking the driver; a send is dropped by the partition only for
\* such a client and only inside that interval, so clients of the other side
\* are never dropped by it, the side of a client is the same on every call, and
\* no send is dropped by the partition once the duration has elapsed, whether
\* or not partition_healed was logged before the call.
C21_PartitionDrops ==
  [][ (last'.n = last.n + 1) =>
        /\ (PartitionWindow(inj', now) /\ cfg.hash_parity[last'.cid] = 0) =>
             (Dropped(last') /\ calls' = calls)
        /\ (last'.reason = "partition") =>
             /\ cfg.hash_parity[last'.cid] = 0
             /\ PartitionWindow(inj', now)
             /\ Dropped(last')
             /\ calls' = calls
    ]_vars

\* with the partition as the only fault: the first send was dropped by it,
\* the second one, by a client of the dropped side after the duration had
\* elapsed, reached the driver in the call that logged partition_healed
C21_Witness ==
  /\ cfg.failure_injection.network_partition.present
  /\ cfg.failure_injection.packet_loss = 0
  /\ cfg.failure_injection.client_crashes = << >>
  /\ last.n = 2
  /\ Len(calls) = 1
  /\ last.invoked = 1
  /\ cfg.hash_parity[last.cid] = 0
  /\ ~PartitionWindow(inj, last.t0)
  /\ EventsOfType(inj, "partition_healed") # {}

\* the step of wrapped_send that logs an event of the given type
StepOf(type) ==
  CASE type = "client_crash" -> 1
    [] type \in {"network_partition", "partition_healed"} -> 2
    [] type = "packet_loss" -> 3
    [] type = "corruption" -> 4
    [] type = "latency_spike" -> 5
    [] OTHER -> 0

\* the events appended by the step from j to k
NewEvents(j, k) == SubSeq(k.events, Len(j.events) + 1, Len(k.events))

\* C26: the events one wrapped send logs come in the order crash check,
\* partition check, drop decision, corruption, latency spike; a dropped call
\* returns (False, 0.0), takes no time, and neither corrupts, delays nor
\* invokes the driver; a call that is not dropped invokes the driver exactly
\* once, with the corrupted payload if it was corrupted and after the spike's
\* delay, and returns what the driver returned.
C26_StepOrder ==
  [][ (last'.n = last.n + 1) =>
        LET new == NewEvents(inj, inj') IN
        /\ \A a, b \in 1..Len(new) :
             a < b => StepOf(new[a].failure_type) <= StepOf(new[b].failure_type)
        /\ \A a \in 1..Len(new) : StepOf(new[a].failure_type) > 0
        /\ IF last'.reason # "none"
           THEN /\ Dropped(last')
                /\ calls' = calls
                /\ now' = now
                /\ \A a \in 1..Len(new) : StepOf(new[a].failure_type) <= 3
           ELSE /\ last'.invoked = 1
                /\ calls' = Append(calls, [op |-> "send_data", raised |-> last'.kind = "raise"])
                /\ last'.kind = last'.under.kind
                /\ last'.ok = last'.under.ok
                /\ last'.t_srv = last'.under.t_srv
                /\ last'.under \in SendData(drv, now + last'.delay)
                /\ last'.corrupted <=> (\E a \in 1..Len(new) : new[a].failure_type = "corruption")
                /\ last'.corrupted => last'.data_out.sensor_data = "CORRUPTED"
                /\ ~last'.corrupted => last'.data_out = last'.data_in
    ]_vars

\* a call that logged a corruption and a latency spike, in that order, and
\* delivered the corrupted payload
C26_Witness ==
  /\ last.n >= 1
  /\ last.invoked = 1
  /\ last.corrupted
  /\ last.delay > 0
  /\ last.data_out.sensor_data = "CORRUPTED"
  /\ Len(inj.events) >= 2
  /\ inj.events[Len(inj.events) - 1].failure_type = "corruption"
  /\ inj.events[Len(inj.events)].failure_type = "latency_spike"
  /\ Len(calls) >= 1

\* the event types that stand for each way a send can be affected
KindsOf(why) ==
  CASE why = "crashed" -> {"client_crash", "packet_loss"}
    [] why = "partition" -> {"network_partition", "packet_loss"}
    [] why = "loss" -> {"packet_loss"}
    [] OTHER -> {}

\* C27: a wrapped send that is dropped (crashed client, partitioned client,
\* random loss), corrupted or delayed appends, during that call, at least one
\* FailureEvent of the corresponding kind.
C27_EveryBranchLogs ==
  [][ (last'.n = last.n + 1) =>
        LET new == NewEvents(inj, inj') IN
        /\ (last'.reason # "none") =>
             \E a \in 1..Len(new) : new[a].failure_type \in KindsOf(last'.reason)
        /\ last'.corrupted => \E a \in 1..Len(new) : new[a].failure_type = "corruption"
        /\ (last'.delay > 0) => \E a \in 1..Len(new) : new[a].failure_type = "latency_spike"
    ]_vars

\* s is a prefix of t
IsPrefix(s, t) == Len(s) <= Len(t) /\ SubSeq(t, 1, Len(s)) = s

C28_AppendOnly ==
  [][IsPrefix(inj.events, inj'.events)]_vars

\* a log of a crash followed by the revival of the same client, with a
\* summary taken in between
C28_Witness ==
  /\ Len(inj.events) >= 2
  /\ result.summary # NoSummary
  /\ \E i, k \in 1..Len(inj.events) :
       /\ i < k
       /\ inj.events[i].failure_type = "client_crash"
       /\ inj.events[k].failure_type = "client_revive"
       /\ inj.events[k].target = inj.events[i].target
  /\ result.summary.total_events < Len(inj.events)

----------------------------------------------------------------------------
(* the report and the failure log; role checks of validate_config *)

\* C22: when fault injection is configured, the report written at the end of
\* the run contains the injector's FailureEvent log, next to the sent, recv
\* and loss metrics.
C22_ReportCarriesFailureLog ==
  (pc = "done" /\ inj.present /\ result.summary.written) =>
    /\ {"sent", "recv", "loss"} \subseteq DOMAIN result.summary
    /\ "failure_events" \in DOMAIN result.summary

\* C24 as stated: a config with role = sensor and num_clients = 0, and one
\* with role = core and num_clients > 0, both pass validate_config.
C24_RoleMismatchesAccepted ==
  ((cfg.role = "sensor" /\ cfg.num_clients = 0) \/ (cfg.role = "core" /\ cfg.num_clients > 0))
    => pc # "rejected"

\* C24, amended: an otherwise valid config with role = core and
\* num_clients > 0 passes validate_config and the run proceeds; a config with
\* role = sensor and num_clients = 0 is rejected by validate_config, and its
\* run never creates a driver, makes no driver call and writes no report.
C24_RoleCheck ==
  /\ (pc # "validate" /\ cfg.role = "core") => pc # "rejected"
  /\ (pc # "validate" /\ cfg.role = "sensor" /\ cfg.num_clients = 0) =>
       /\ pc = "rejected"
       /\ calls = << >>
       /\ drv.stops = 0
       /\ ~result.summary.written

\* a core node with local clients ran to its end, sent a message and wrote
\* its report
C24_Witness ==
  /\ cfg.role = "core"
  /\ cfg.num_clients > 0
  /\ pc = "done"
  /\ metrics.sent >= 1
  /\ result.summary.written

----------------------------------------------------------------------------
(* StreamingPercentile *)

\* C29: after any sequence of add calls the buffer holds at most buffer_size
\* samples, and they are the most recent min(n, buffer_size) of the n values
\* added, in the order they were added.
C29_RingBuffer ==
  (pc = "percentile") =>
    LET n == Len(sp.added)
        k == Min(n, sp.buffer_size)
    IN /\ Len(sp.buffer) <= sp.buffer_size
       /\ Len(sp.buffer) = k
       /\ \A i \in 1..k : sp.buffer[i] = sp.added[n - k + i]

\* more values were added than the buffer holds, and the first one is gone
C29_Witness ==
  /\ pc = "percentile"
  /\ sp.buffer_size = 2
  /\ Len(sp.added) = 4
  /\ sp.added = <<1, 2, 3, 2>>
  /\ sp.buffer = <<3, 2>>

\* the element of index k (from 0) of sorted(B), stated without sorting
NthSmallest(B, k) ==
  CHOOSE x \in {B[i] : i \in 1..Len(B)} :
    /\ Cardinality({i \in 1..Len(B) : B[i] < x}) <= k
    /\ k < Cardinality({i \in 1..Len(B) : B[i] <= x})

\* sorted(B)[min(max(floor(p/100 * N), 0), N - 1)], and 0.0 for an empty B
ExpectedPercentile(B, p) ==
  IF Len(B) = 0 THEN 0
  ELSE NthSmallest(B, Min(Max((p * Len(B)) \div 100, 0), Len(B) - 1))

----------------------------------------------------------------------------
(* the active loop: supported sends, pacing and accounting *)

\* C34: send_data is invoked only on drivers that support it: a bundled driver
\* whose send_data always raises NotImplementedError declares passive mode, so
\* no send_data call is ever made on such a driver.
C34_SendOnlyWhereSupported ==
  (pc \notin {"validate", "rejected", "create"} /\ drv.protocol \in Bundled
     /\ SendData(drv, now) = {SendRaise}) =>
    /\ drv.mode = "passive"
    /\ CallOps("send_data") = {}

\* C35: the next Reading is taken from the generator only after the delay
\* yielded with the previous Reading has passed since its send_data call,
\* whether that call succeeded, returned failure or raised.
C35_DelayHonored ==
  [][ (pc = "loop" /\ emitted' # emitted /\ last.n >= 1) => now >= last.t0 + cur.to ]_vars

\* C37: in an active run, after every processed Reading, sent plus the number
\* of recorded errors equals the number of send_data invocations made by the
\* loop: a raising send is an error and not sent, a returning send is sent
\* once, whatever it returned.
C37_SentPlusErrors ==
  (drv.mode = "active" /\ pc \in {"loop", "sleep", "finally", "save", "done"}) =>
    /\ metrics.sent + Len(metrics.err) = last.n
    /\ (last.n > 0 /\ pc \in {"loop", "sleep"}) =>
         (IF last.kind = "raise" THEN pc = "loop" ELSE pc = "sleep" \/ pc = "loop")

\* one send raised and one returned failure: one error, one sent
C37_Witness ==
  /\ drv.mode = "active"
  /\ pc = "sleep"
  /\ last.n = 2
  /\ last.kind = "ret"
  /\ ~last.ok
  /\ metrics.sent = 1
  /\ Len(metrics.err) = 1

----------------------------------------------------------------------------
(* partition events and crashed clients *)

\* the partition events of the log, in log order
PartitionEvents(j) ==
  SelectSeq(j.events, LAMBDA e : e.failure_type \in {"network_partition", "partition_healed"})

C40_CrashedIsConfigured ==
  inj.present => inj.crashed_clients \subseteq 0..(cfg.num_clients - 1)

----------------------------------------------------------------------------
(* the generator: counter range and termination *)

\* C33: every sequence number the generator emits lies in 0..65535, however
\* many Readings the stream has produced.
C33_SeqBelowModulus ==
  \A i \in 1..Len(emitted) : emitted[i].data.seq_no \in 0..(SeqModulus - 1)

\* C36: while the consumer keeps asking and the clock advances, the generator
\* terminates, for every num_clients >= 0; with num_clients = 0 it has yielded
\* nothing and ends once the duration has elapsed.
C36_GeneratorTerminates ==
  <>( /\ gen.finished
      /\ cfg.num_clients = 0 => (emitted = << >> /\ now >= gen.start_time + cfg.duration) )

\* a stream of two devices that ended after two whole passes
C36_Witness ==
  /\ pc = "live"
  /\ gen.finished
  /\ cfg.num_clients = 2
  /\ Len(emitted) = 4
  /\ now >= gen.start_time + cfg.duration

----------------------------------------------------------------------------
(* HistogramBucket *)

\* buckets[lo] + ... + buckets[hi]
RECURSIVE RangeSum(_, _, _)
RangeSum(b, lo, hi) ==
  IF lo > hi THEN 0
  ELSE IF lo = hi THEN b[lo]
  ELSE LET mid == (lo + hi) \div 2 IN RangeSum(b, lo, mid) + RangeSum(b, mid + 1, hi)

\* buckets[0] + ... + buckets[k]
BucketSum(b, k) == RangeSum(b, 0, k)

CrossingBucket(h, p) ==
  LET S == { i \in 0..(h.num_buckets - 1) :
               100 * (h.underflow + BucketSum(h.buckets, i)) >= p * h.total_count }
  IN IF S = {} THEN h.num_buckets ELSE CHOOSE i \in S : \A j \in S : i <= j

\* C32: on a non-empty histogram and for 0 <= p <= 100, percentile(p) returns
\* a value inside the bucket that crosses the target rank, so inside
\* [min_val, max_val], whatever the counters hold; it returns max_val when the
\* rank lies in the overflow counter.
C32_PercentileInsideCrossingBucket ==
  [][ (hist'.op = "percentile" /\ hist.total_count > 0) =>
        LET r == hist'.value
            i == CrossingBucket(hist, hist'.arg)
            start == hist.min_val + i * hist.bucket_width
        IN IF i = hist.num_buckets
           THEN r.num = hist.max_val * r.den
           ELSE /\ start * r.den <= r.num
                /\ r.num <= (start + hist.bucket_width) * r.den
                /\ hist.min_val * r.den <= r.num
                /\ r.num <= hist.max_val * r.den
    ]_vars

====
